---- MODULE Spec2Model ----
(***************************************************************************)
(* PPP over serial (lwIP netif/ppp/pppos.c): the HDLC-like framer between  *)
(* the PPP engine and a serial byte channel.                               *)
(*                                                                         *)
(* The model is built for the configuration VJ_SUPPORT = 0,                *)
(* IP_FORWARD = LWIP_IPV6_FORWARD = 0 (no link header room in the first    *)
(* receive buffer), PPP_FCS_TABLE = 1 and, except in SpecQ,                *)
(* PPP_INPROC_MULTITHREADED = 0 (pppos_input calls ppp_input itself).      *)
(* Bytes are the integers 0..255, the FCS is kept in 16 bits, the tick     *)
(* counter in 32 bits.  The two reads of sys_jiffies in one transmit call  *)
(* return the same tick.                                                   *)
(*                                                                         *)
(* Specifications:                                                         *)
(*   Spec    the receive framer fed one wire byte at a time, with buffer   *)
(*           allocation succeeding or failing;                             *)
(*   SpecIN  the receive framer fed the byte stream in calls of several    *)
(*           characters, beside a framer fed one character per call;       *)
(*   SpecQ   the receive framer of the PPP_INPROC_MULTITHREADED build and  *)
(*           the tcpip thread that takes its packets;                      *)
(*   SpecTX  one call of a transmit entry point, with allocation failures  *)
(*           and short serial writes;                                      *)
(*   SpecTXN successive calls of the transmit entry points;                *)
(*   SpecRT  one frame sent by pppos_link_netif_output_callback and fed    *)
(*           to pppos_input;                                               *)
(*   SpecMT  pppos_input on a receive thread, interleaved with the link    *)
(*           commands issued on another thread.                            *)
(***************************************************************************)
EXTENDS Integers, Sequences, FiniteSets, TLC

VARIABLES
  pcrx,      \* ppp_pcb_rx: in_state, in_fcs, in_escaped, in_protocol, in_accm, in_head, in_tail
  pool,      \* the pbuf pool: pbuf id -> [st, len, tot_len, next, payload]
  stats,     \* LINK_STATS counters (lwip_stats.link)
  upper,     \* the chains handed to ppp_input, in order (head pbuf ids)
  fault,     \* "none", or the memory fault the run has ended in
  ev,        \* what the last pppos_input byte did (history)
  seg,       \* the wire bytes received since the last FLAG (history)
  opened,    \* TRUE once a FLAG has been received (history)
  starved,   \* TRUE when an allocation has failed since the last FLAG (history)
  nbytes,    \* number of bytes handed to pppos_input so far (history)
  ref,       \* SpecIN: the framer fed the same stream one character per call (ghost)
  tcpip,     \* the mailbox of the tcpip thread (PPP_INPROC_MULTITHREADED builds)
  ppp,       \* transmit side of ppp_pcb: last_xmit, out_accm, accomp, pcomp
  tx,        \* the last transmit call: its inputs, the chain built, what sio_write saw, the return code
  ncalls,    \* number of transmit calls so far (history)
  rt,        \* SpecRT: the frame sent and how much of it has been fed back
  mt         \* SpecMT: the receive thread's position and registers, the link's life

rxvars == <<pcrx, pool, stats, upper, fault, ev, tcpip, seg, opened, starved, nbytes, ref>>
txvars == <<ppp, tx, ncalls>>
vars == <<pcrx, pool, stats, upper, fault, ev, tcpip, seg, opened, starved, nbytes, ref,
          ppp, tx, ncalls, rt, mt>>

----------------------------------------------------------------------------
(* Bounds of the model *)

\* capacity of one pool buffer, in bytes (lwipopts: PBUF_POOL_BUFSIZE), scaled down
PBUF_POOL_BUFSIZE == 4
\* number of buffers in the pool
NPbufs == 3
\* Spec: bytes handed to pppos_input in one run
MaxInput == 7
\* Spec: wire bytes between two FLAGs
MaxFrame == 5
\* SpecTX, SpecRT: bytes in an outbound payload
MaxPayload == 1
\* SpecTX: transmit calls in one run
MaxCalls == 2
MaxRtPayload == 2
\* SpecIN: bytes handed to pppos_input in one run and in one call, wire
\* bytes between two FLAGs
MaxStream == 10
MaxChunk == 2
MaxRun == 4
\* SpecQ: bytes handed to pppos_input in one run, wire bytes between two
\* FLAGs, messages the mailbox of the tcpip thread holds (TCPIP_MBOX_SIZE),
\* bytes of struct pppos_input_header (a pointer), scaled down
MaxQInput == 13
MaxQRun == 3
TCPIP_MBOX_SIZE == 1
SizeofInputHeader == 1
\* the most FLAGs tried in a row in front of a frame
MaxFlags == 3
\* SpecOWN: bytes handed to pppos_input in one run, wire bytes between
\* two FLAGs
MaxOwnInput == 9
MaxOwnRun == 4

----------------------------------------------------------------------------
(* Program constants *)

PPP_FLAG == \h7e
PPP_ESCAPE == \h7d
PPP_TRANS == \h20
PPP_ALLSTATIONS == \hff
PPP_UI == \h03
PPP_INITFCS == \hffff
PPP_GOODFCS == \hf0b8
PPP_MAXIDLEFLAG == 100

PDIDLE == 0
PDSTART == 1
PDADDRESS == 2
PDCONTROL == 3
PDPROTOCOL1 == 4
PDPROTOCOL2 == 5
PDDATA == 6

NULL == 0

\* a byte of the pcb pointer stored in front of a received packet
PcbPointer == 256

Byte == 0..255

----------------------------------------------------------------------------
(* C integer operators on naturals *)

RECURSIVE BitXor(_, _)
BitXor(a, b) ==
  IF a = 0 THEN b
  ELSE IF b = 0 THEN a
  ELSE ((a + b) % 2) + 2 * BitXor(a \div 2, b \div 2)

RECURSIVE BitOr(_, _)
BitOr(a, b) ==
  IF a = 0 THEN b
  ELSE IF b = 0 THEN a
  ELSE (IF a % 2 = 1 \/ b % 2 = 1 THEN 1 ELSE 0) + 2 * BitOr(a \div 2, b \div 2)

\* ~x within 16 bits
Not16(x) == \hffff - (x % 65536)

----------------------------------------------------------------------------
(* FCS *)

fcstab ==
  << \h0000, \h1189, \h2312, \h329b, \h4624, \h57ad, \h6536, \h74bf,
     \h8c48, \h9dc1, \haf5a, \hbed3, \hca6c, \hdbe5, \he97e, \hf8f7,
     \h1081, \h0108, \h3393, \h221a, \h56a5, \h472c, \h75b7, \h643e,
     \h9cc9, \h8d40, \hbfdb, \hae52, \hdaed, \hcb64, \hf9ff, \he876,
     \h2102, \h308b, \h0210, \h1399, \h6726, \h76af, \h4434, \h55bd,
     \had4a, \hbcc3, \h8e58, \h9fd1, \heb6e, \hfae7, \hc87c, \hd9f5,
     \h3183, \h200a, \h1291, \h0318, \h77a7, \h662e, \h54b5, \h453c,
     \hbdcb, \hac42, \h9ed9, \h8f50, \hfbef, \hea66, \hd8fd, \hc974,
     \h4204, \h538d, \h6116, \h709f, \h0420, \h15a9, \h2732, \h36bb,
     \hce4c, \hdfc5, \hed5e, \hfcd7, \h8868, \h99e1, \hab7a, \hbaf3,
     \h5285, \h430c, \h7197, \h601e, \h14a1, \h0528, \h37b3, \h263a,
     \hdecd, \hcf44, \hfddf, \hec56, \h98e9, \h8960, \hbbfb, \haa72,
     \h6306, \h728f, \h4014, \h519d, \h2522, \h34ab, \h0630, \h17b9,
     \hef4e, \hfec7, \hcc5c, \hddd5, \ha96a, \hb8e3, \h8a78, \h9bf1,
     \h7387, \h620e, \h5095, \h411c, \h35a3, \h242a, \h16b1, \h0738,
     \hffcf, \hee46, \hdcdd, \hcd54, \hb9eb, \ha862, \h9af9, \h8b70,
     \h8408, \h9581, \ha71a, \hb693, \hc22c, \hd3a5, \he13e, \hf0b7,
     \h0840, \h19c9, \h2b52, \h3adb, \h4e64, \h5fed, \h6d76, \h7cff,
     \h9489, \h8500, \hb79b, \ha612, \hd2ad, \hc324, \hf1bf, \he036,
     \h18c1, \h0948, \h3bd3, \h2a5a, \h5ee5, \h4f6c, \h7df7, \h6c7e,
     \ha50a, \hb483, \h8618, \h9791, \he32e, \hf2a7, \hc03c, \hd1b5,
     \h2942, \h38cb, \h0a50, \h1bd9, \h6f66, \h7eef, \h4c74, \h5dfd,
     \hb58b, \ha402, \h9699, \h8710, \hf3af, \he226, \hd0bd, \hc134,
     \h39c3, \h284a, \h1ad1, \h0b58, \h7fe7, \h6e6e, \h5cf5, \h4d7c,
     \hc60c, \hd785, \he51e, \hf497, \h8028, \h91a1, \ha33a, \hb2b3,
     \h4a44, \h5bcd, \h6956, \h78df, \h0c60, \h1de9, \h2f72, \h3efb,
     \hd68d, \hc704, \hf59f, \he416, \h90a9, \h8120, \hb3bb, \ha232,
     \h5ac5, \h4b4c, \h79d7, \h685e, \h1ce1, \h0d68, \h3ff3, \h2e7a,
     \he70e, \hf687, \hc41c, \hd595, \ha12a, \hb0a3, \h8238, \h93b1,
     \h6b46, \h7acf, \h4854, \h59dd, \h2d62, \h3ceb, \h0e70, \h1ff9,
     \hf78f, \he606, \hd49d, \hc514, \hb1ab, \ha022, \h92b9, \h8330,
     \h7bc7, \h6a4e, \h58d5, \h495c, \h3de3, \h2c6a, \h1ef1, \h0f78 >>

\* PPP_FCS(fcs, c) = ((fcs) >> 8) ^ fcstab[((fcs) ^ (c)) & 0xff]
PPP_FCS(fcs, c) ==
  BitXor(fcs \div 256, fcstab[BitXor(fcs % 256, c % 256) + 1])

\* the FCS folded over a sequence of bytes
RECURSIVE FcsFold(_, _)
FcsFold(fcs, s) ==
  IF s = <<>> THEN fcs ELSE FcsFold(PPP_FCS(fcs, Head(s)), Tail(s))

----------------------------------------------------------------------------
(* ACCM: 32 bytes, bit (c & 7) of byte (c >> 3) marks character c *)

ppp_accm_mask == <<1, 2, 4, 8, 16, 32, 64, 128>>

ESCAPE_P(accm, c) ==
  (accm[c \div 8] \div ppp_accm_mask[(c % 8) + 1]) % 2 = 1

AccmZero == [i \in 0..31 |-> 0]

\* the map with the bit of character c set
AccmWith(accm, c) ==
  IF ESCAPE_P(accm, c) THEN accm
  ELSE [accm EXCEPT ![c \div 8] = @ + ppp_accm_mask[(c % 8) + 1]]

\* pppos_connect: accm[15] = 0x60, the bits of 0x7d and 0x7e
AccmDefault == [AccmZero EXCEPT ![15] = \h60]

\* the default map plus the control characters 0x00..0x1f (async map 0xffffffff)
AccmCtrl == [i \in 0..31 |-> IF i < 4 THEN \hff ELSE AccmDefault[i]]

----------------------------------------------------------------------------
(* The pbuf pool (lwip/pbuf.h).  A buffer is "free", owned by the receive  *)
(* framer ("rx"), owned by a message in the mailbox of the tcpip thread    *)
(* ("tcpip"), or owned by the PPP engine after ppp_input ("upper").        *)
(* payload holds the len bytes in use.                                     *)

FreePbuf == [st |-> "free", len |-> 0, tot_len |-> 0, next |-> NULL, payload |-> <<>>]

PbufId == 1..NPbufs

EmptyPool == [i \in PbufId |-> FreePbuf]

\* pbuf_alloc(PBUF_RAW, 0, PBUF_POOL): the buffer handed out, NULL when the
\* pool has none left or the allocation fails (ok = FALSE)
pbuf_alloc(pl, ok) ==
  IF ok /\ \E i \in PbufId : pl[i].st = "free"
  THEN CHOOSE i \in PbufId : pl[i].st = "free" /\ \A j \in PbufId : pl[j].st = "free" => i <= j
  ELSE NULL

\* the pool after pbuf_alloc has handed out p (len and tot_len are 0)
PoolTake(pl, p) == [pl EXCEPT ![p] = [FreePbuf EXCEPT !.st = "rx"]]

\* what dereferencing p does: nothing, or a fault
PtrFault(w, p) ==
  IF p = NULL THEN "null_deref"
  ELSE IF w.pool[p].st = "free" THEN "use_after_free"
  ELSE IF w.pool[p].st \in {"upper", "tcpip"} THEN "not_owner"
  ELSE "none"

\* pbuf_free(p): release p and the buffers chained behind it (every ref is 1)
RECURSIVE pbuf_free(_, _)
pbuf_free(w, p) ==
  IF p = NULL \/ w.fault # "none" THEN w
  ELSE IF w.pool[p].st = "free" THEN [w EXCEPT !.fault = "double_free"]
  ELSE IF w.pool[p].st \in {"upper", "tcpip"} THEN [w EXCEPT !.fault = "not_owner"]
  ELSE pbuf_free([w EXCEPT !.pool[p] = FreePbuf], w.pool[p].next)

\* pbuf_cat(h, t): add t's tot_len along the chain of h and link t behind its last buffer
RECURSIVE pbuf_cat(_, _, _)
pbuf_cat(pl, h, t) ==
  LET pl1 == [pl EXCEPT ![h].tot_len = @ + pl[t].tot_len]
  IN  IF pl[h].next = NULL THEN [pl1 EXCEPT ![h].next = t]
      ELSE pbuf_cat(pl1, pl[h].next, t)

\* pbuf_realloc(p, new_len): walk to the buffer holding the new end, cut it
\* there and free what follows
RECURSIVE pbuf_realloc_walk(_, _, _, _)
pbuf_realloc_walk(w, q, rem_len, shrink) ==
  IF rem_len > w.pool[q].len
  THEN pbuf_realloc_walk([w EXCEPT !.pool[q].tot_len = @ - shrink],
                         w.pool[q].next, rem_len - w.pool[q].len, shrink)
  ELSE LET rest == w.pool[q].next
           w1 == [w EXCEPT !.pool[q].len = rem_len,
                           !.pool[q].tot_len = rem_len,
                           !.pool[q].payload = SubSeq(@, 1, rem_len),
                           !.pool[q].next = NULL]
       IN  pbuf_free(w1, rest)

pbuf_realloc(w, p, new_len) ==
  IF new_len >= w.pool[p].tot_len THEN w
  ELSE pbuf_realloc_walk(w, p, new_len, w.pool[p].tot_len - new_len)

\* the bytes of the chain starting at p
RECURSIVE ChainBytes(_, _)
ChainBytes(pl, p) ==
  IF p = NULL THEN <<>> ELSE pl[p].payload \o ChainBytes(pl, pl[p].next)

----------------------------------------------------------------------------
(* pppos_input: the receive framer.  The operators below work on a record  *)
(* w that holds the variables pcrx, pool, stats, upper, fault, ev, tcpip.  *)

World == [pcrx |-> pcrx, pool |-> pool, stats |-> stats, upper |-> upper,
          fault |-> fault, ev |-> ev, tcpip |-> tcpip]

\* pppos_free_current_input_packet, with head and tail the values of
\* pcrx->in_head and pcrx->in_tail that its tests and pbuf_free calls use
free_loaded(w, head, tail) ==
  LET w1 == IF head # NULL
            THEN LET wt == IF tail # NULL /\ tail # head THEN pbuf_free(w, tail) ELSE w
                 IN  [pbuf_free(wt, head) EXCEPT !.pcrx.in_head = NULL]
            ELSE w
  IN  [w1 EXCEPT !.pcrx.in_tail = NULL]

\* pppos_free_current_input_packet without the pbuf_free of line 771
pppos_free_head_only(w) ==
  LET w1 == IF w.pcrx.in_head # NULL
            THEN [pbuf_free(w, w.pcrx.in_head) EXCEPT !.pcrx.in_head = NULL]
            ELSE w
  IN  [w1 EXCEPT !.pcrx.in_tail = NULL]

\* pppos_free_current_input_packet
pppos_free_current_input_packet(w) ==
  free_loaded(w, w.pcrx.in_head, w.pcrx.in_tail)

\* pppos_drop (VJ_SUPPORT = 0)
pppos_drop(w) ==
  [pppos_free_current_input_packet(w) EXCEPT !.stats.drop = @ + 1]

\* the chain starting at p now belongs to owner
RECURSIVE Give(_, _, _)
Give(pl, p, owner) ==
  IF p = NULL THEN pl ELSE Give([pl EXCEPT ![p].st = owner], pl[p].next, owner)

\* ppp_input(pcb, inp): the chain now belongs to the PPP engine
GiveUpper(pl, p) == Give(pl, p, "upper")

ppp_input(w, inp) ==
  [w EXCEPT !.upper = Append(@, inp), !.pool = GiveUpper(@, inp)]

\* struct pppos_input_header in the first buffer of a chain
\* (PPP_INPROC_MULTITHREADED): the pcb pointer, one element per byte
pppos_input_header == [i \in 1..SizeofInputHeader |-> PcbPointer]

\* tcpip_callback_with_block(pppos_input_callback, inp, 0): the message is
\* posted unless the mailbox is full
tcpip_callback_with_block(w, inp) ==
  IF Len(w.tcpip.mbox) < TCPIP_MBOX_SIZE
  THEN [w EXCEPT !.tcpip.mbox = Append(@, inp), !.pool = Give(@, inp, "tcpip")]
  ELSE w

\* lines 493-502 with the chain kept in_head when the post fails
rx_dispatch_keeps_frame(w, inp) ==
  IF w.tcpip.on
  THEN LET w1 == tcpip_callback_with_block(w, inp)
       IN  IF w1 # w THEN [w1 EXCEPT !.ev = "queued"]
           ELSE [w EXCEPT !.pcrx.in_head = inp, !.pcrx.in_tail = inp, !.ev = "qdrop"]
  ELSE [ppp_input(w, inp) EXCEPT !.ev = "deliver"]

\* lines 493-502: dispatch the packet
rx_dispatch(w, inp) ==
  IF w.tcpip.on
  THEN LET w1 == tcpip_callback_with_block(w, inp)
       IN  IF w1 # w THEN [w1 EXCEPT !.ev = "queued"]
           ELSE [pbuf_free(w, inp) EXCEPT !.stats.drop = @ + 1, !.ev = "qdrop"]
  ELSE [ppp_input(w, inp) EXCEPT !.ev = "deliver"]

\* pbuf_header(p, -n): hide the first n bytes of p; the result tells failure
pbuf_header_hide(w, p, n) ==
  IF n > w.pool[p].len THEN w
  ELSE [w EXCEPT !.pool[p].payload = SubSeq(@, n + 1, Len(@)),
                 !.pool[p].len = @ - n,
                 !.pool[p].tot_len = @ - n]

\* pppos_input_callback(arg), run by the tcpip thread on the first message
pppos_input_callback(w) ==
  LET pb == Head(w.tcpip.mbox)
      w1 == [w EXCEPT !.tcpip.mbox = Tail(@), !.pool = Give(@, pb, "rx")]
      w2 == pbuf_header_hide(w1, pb, SizeofInputHeader)
  IN  IF SizeofInputHeader > w1.pool[pb].len
      THEN [pbuf_free(w1, pb) EXCEPT !.stats.drop = @ + 1, !.ev = "cbdrop"]
      ELSE [ppp_input(w2, pb) EXCEPT !.ev = "deliver"]

\* lines 465-503: a FLAG in PDDATA with a good FCS: trim the two FCS bytes
\* and hand the chain to ppp_input
rx_good_packet(w) ==
  LET head == w.pcrx.in_head
      tail == w.pcrx.in_tail
  IN
  IF PtrFault(w, tail) # "none" THEN [w EXCEPT !.fault = PtrFault(w, tail), !.ev = "crash"]
  ELSE IF tail # head /\ PtrFault(w, head) # "none"
       THEN [w EXCEPT !.fault = PtrFault(w, head), !.ev = "crash"]
  ELSE
    LET trimmed ==
          IF w.pool[tail].len > 2
          THEN LET n == w.pool[tail].len - 2
                   pl1 == [w.pool EXCEPT ![tail].len = n,
                                         ![tail].payload = SubSeq(@, 1, n),
                                         ![tail].tot_len = n]
               IN  [w EXCEPT !.pool = IF tail # head THEN pbuf_cat(pl1, head, tail) ELSE pl1]
          ELSE LET pl1 == [w.pool EXCEPT ![tail].tot_len = w.pool[tail].len]
                   pl2 == IF tail # head THEN pbuf_cat(pl1, head, tail) ELSE pl1
               IN  pbuf_realloc([w EXCEPT !.pool = pl2], head,
                                (pl2[head].tot_len - 2) % 65536)
        released == [trimmed EXCEPT !.pcrx.in_head = NULL, !.pcrx.in_tail = NULL]
    IN  rx_dispatch(released, head)

\* rx_flag with the extra-flag test off by one state (in_state <= PDCONTROL)
rx_flag_off_by_one(w) ==
  LET s == w.pcrx.in_state
      w1 == IF s <= PDCONTROL THEN [w EXCEPT !.ev = "extra_flag"]
            ELSE IF s < PDDATA
                 THEN pppos_drop([w EXCEPT !.stats.lenerr = @ + 1, !.ev = "lenerr"])
            ELSE IF w.pcrx.in_fcs # PPP_GOODFCS
                 THEN pppos_drop([w EXCEPT !.stats.chkerr = @ + 1, !.ev = "chkerr"])
            ELSE rx_good_packet(w)
  IN  IF w1.fault # "none" THEN w1
      ELSE [w1 EXCEPT !.pcrx.in_fcs = PPP_INITFCS,
                      !.pcrx.in_state = PDADDRESS,
                      !.pcrx.in_escaped = 0]

\* rx_flag with the extra-flag test excluding PDADDRESS (in_state < PDADDRESS)
rx_flag_counts_extra(w) ==
  LET s == w.pcrx.in_state
      w1 == IF s < PDADDRESS THEN [w EXCEPT !.ev = "extra_flag"]
            ELSE IF s < PDDATA
                 THEN pppos_drop([w EXCEPT !.stats.lenerr = @ + 1, !.ev = "lenerr"])
            ELSE IF w.pcrx.in_fcs # PPP_GOODFCS
                 THEN pppos_drop([w EXCEPT !.stats.chkerr = @ + 1, !.ev = "chkerr"])
            ELSE rx_good_packet(w)
  IN  IF w1.fault # "none" THEN w1
      ELSE [w1 EXCEPT !.pcrx.in_fcs = PPP_INITFCS,
                      !.pcrx.in_state = PDADDRESS,
                      !.pcrx.in_escaped = 0]

\* rx_flag without line 508
rx_flag_keeps_escape(w) ==
  LET s == w.pcrx.in_state
      w1 == IF s <= PDADDRESS THEN [w EXCEPT !.ev = "extra_flag"]
            ELSE IF s < PDDATA
                 THEN pppos_drop([w EXCEPT !.stats.lenerr = @ + 1, !.ev = "lenerr"])
            ELSE IF w.pcrx.in_fcs # PPP_GOODFCS
                 THEN pppos_drop([w EXCEPT !.stats.chkerr = @ + 1, !.ev = "chkerr"])
            ELSE rx_good_packet(w)
  IN  IF w1.fault # "none" THEN w1
      ELSE [w1 EXCEPT !.pcrx.in_fcs = PPP_INITFCS,
                      !.pcrx.in_state = PDADDRESS]

\* lines 445-508: a FLAG character
rx_flag(w) ==
  LET s == w.pcrx.in_state
      w1 == IF s <= PDADDRESS THEN [w EXCEPT !.ev = "extra_flag"]
            ELSE IF s < PDDATA
                 THEN pppos_drop([w EXCEPT !.stats.lenerr = @ + 1, !.ev = "lenerr"])
            ELSE IF w.pcrx.in_fcs # PPP_GOODFCS
                 THEN pppos_drop([w EXCEPT !.stats.chkerr = @ + 1, !.ev = "chkerr"])
            ELSE rx_good_packet(w)
  IN  IF w1.fault # "none" THEN w1
      ELSE [w1 EXCEPT !.pcrx.in_fcs = PPP_INITFCS,
                      !.pcrx.in_state = PDADDRESS,
                      !.pcrx.in_escaped = 0]

\* lines 581-626: make space to receive a data byte
rx_data_room(w, ok) ==
  LET head == w.pcrx.in_head
      tail == w.pcrx.in_tail
  IN
  IF tail # NULL /\ PtrFault(w, tail) # "none"
  THEN [w EXCEPT !.fault = PtrFault(w, tail), !.ev = "crash"]
  ELSE IF tail = NULL \/ w.pool[tail].len = PBUF_POOL_BUFSIZE
  THEN LET w1 == IF tail # NULL
                 THEN LET pl1 == [w.pool EXCEPT ![tail].tot_len = w.pool[tail].len]
                      IN  IF tail # head
                          THEN [w EXCEPT !.pool = pbuf_cat(pl1, head, tail),
                                         !.pcrx.in_tail = NULL]
                          ELSE [w EXCEPT !.pool = pl1]
                 ELSE w
           next_pbuf == pbuf_alloc(w1.pool, ok)
       IN  IF next_pbuf = NULL
           THEN [pppos_drop([w1 EXCEPT !.stats.memerr = @ + 1])
                   EXCEPT !.pcrx.in_state = PDSTART, !.ev = "nomem"]
           ELSE LET w2 == [w1 EXCEPT !.pool = PoolTake(@, next_pbuf)]
                    hdr == IF w.tcpip.on THEN pppos_input_header ELSE <<>>
                    w3 == IF w2.pcrx.in_head = NULL
                          THEN [w2 EXCEPT
                                  !.pool[next_pbuf].len = @ + Len(hdr) + 2,
                                  !.pool[next_pbuf].payload =
                                     hdr \o << (w.pcrx.in_protocol \div 256) % 256,
                                               w.pcrx.in_protocol % 256 >>,
                                  !.pcrx.in_head = next_pbuf]
                          ELSE w2
                IN  [w3 EXCEPT !.pcrx.in_tail = next_pbuf]
  ELSE w

\* line 628: load the character into the buffer p points at
rx_data_store(w, p, cur) ==
  IF PtrFault(w, p) # "none" THEN [w EXCEPT !.fault = PtrFault(w, p), !.ev = "crash"]
  ELSE [w EXCEPT !.pool[p].payload = Append(@, cur),
                 !.pool[p].len = @ + 1,
                 !.ev = "data"]

\* case PDDATA
case_PDDATA(w, cur, ok) ==
  LET w1 == rx_data_room(w, ok)
  IN  IF w1.fault # "none" \/ w1.ev = "nomem" THEN w1
      ELSE rx_data_store(w1, w1.pcrx.in_tail, cur)

\* case PDPROTOCOL2
case_PDPROTOCOL2(w, cur) ==
  [w EXCEPT !.pcrx.in_protocol = BitOr(@, cur),
            !.pcrx.in_state = PDDATA, !.ev = "header"]

\* case PDPROTOCOL1
case_PDPROTOCOL1(w, cur) ==
  IF cur % 2 = 1
  THEN [w EXCEPT !.pcrx.in_protocol = cur, !.pcrx.in_state = PDDATA, !.ev = "header"]
  ELSE [w EXCEPT !.pcrx.in_protocol = cur * 256, !.pcrx.in_state = PDPROTOCOL2,
                 !.ev = "header"]

\* case PDCONTROL, falling through to PDPROTOCOL1
case_PDCONTROL(w, cur) ==
  IF cur = PPP_UI
  THEN [w EXCEPT !.pcrx.in_state = PDPROTOCOL1, !.ev = "header"]
  ELSE case_PDPROTOCOL1(w, cur)

\* case PDADDRESS, falling through to PDCONTROL
case_PDADDRESS(w, cur) ==
  IF cur = PPP_ALLSTATIONS
  THEN [w EXCEPT !.pcrx.in_state = PDCONTROL, !.ev = "header"]
  ELSE case_PDCONTROL(w, cur)

\* case PDSTART, falling through to PDADDRESS
case_PDSTART(w, cur) ==
  case_PDADDRESS([w EXCEPT !.pcrx.in_fcs = PPP_INITFCS], cur)

\* case PDIDLE, falling through to PDSTART
case_PDIDLE(w, cur) ==
  IF cur # PPP_ALLSTATIONS THEN [w EXCEPT !.ev = "idle"] ELSE case_PDSTART(w, cur)

\* lines 524-632: the switch on in_state
rx_switch(w, cur, ok) ==
  LET s == w.pcrx.in_state
  IN  IF s = PDIDLE THEN case_PDIDLE(w, cur)
      ELSE IF s = PDSTART THEN case_PDSTART(w, cur)
      ELSE IF s = PDADDRESS THEN case_PDADDRESS(w, cur)
      ELSE IF s = PDCONTROL THEN case_PDCONTROL(w, cur)
      ELSE IF s = PDPROTOCOL1 THEN case_PDPROTOCOL1(w, cur)
      ELSE IF s = PDPROTOCOL2 THEN case_PDPROTOCOL2(w, cur)
      ELSE IF s = PDDATA THEN case_PDDATA(w, cur, ok)
      ELSE w

\* lines 516-636: a character the ACCM does not mark
rx_other(w, c, ok) ==
  LET cur == IF w.pcrx.in_escaped # 0 THEN BitXor(c, PPP_TRANS) ELSE c
      w1 == [w EXCEPT !.pcrx.in_escaped = 0]
      w2 == rx_switch(w1, cur, ok)
  IN  IF w2.fault # "none" THEN w2
      ELSE [w2 EXCEPT !.pcrx.in_fcs = PPP_FCS(@, cur)]

\* pppos_input_byte with in_escaped cleared when an ACCM character is dropped
pppos_input_byte_drop_clears(w, c, ok) ==
  IF ESCAPE_P(w.pcrx.in_accm, c)
  THEN IF c = PPP_ESCAPE THEN [w EXCEPT !.pcrx.in_escaped = 1, !.ev = "escape"]
       ELSE IF c = PPP_FLAG THEN rx_flag(w)
       ELSE [w EXCEPT !.pcrx.in_escaped = 0, !.ev = "accm"]
  ELSE rx_other(w, c, ok)

\* one turn of the loop of pppos_input (lines 429-637) on character c;
\* ok: whether a buffer allocation in this turn succeeds
pppos_input_byte(w, c, ok) ==
  IF ESCAPE_P(w.pcrx.in_accm, c)
  THEN IF c = PPP_ESCAPE THEN [w EXCEPT !.pcrx.in_escaped = 1, !.ev = "escape"]
       ELSE IF c = PPP_FLAG THEN rx_flag(w)
       ELSE [w EXCEPT !.ev = "accm"]
  ELSE rx_other(w, c, ok)

----------------------------------------------------------------------------
(* The state after ppp_over_serial_create and pppos_connect *)

\* ppp_pcb_rx after ppp_clear and pppos_connect, with the receive ACCM accm
RxInit(accm) ==
  [in_state |-> PDIDLE, in_fcs |-> 0, in_escaped |-> 0, in_protocol |-> 0,
   in_accm |-> accm, in_head |-> NULL, in_tail |-> NULL]

StatsInit ==
  [lenerr |-> 0, chkerr |-> 0, memerr |-> 0, drop |-> 0, err |-> 0,
   proterr |-> 0, xmit |-> 0]

\* the transmit side of the ppp_pcb after ppp_clear and pppos_connect
PppInit(accm, ac, pc) ==
  [last_xmit |-> <<0, 0>>, out_accm |-> accm, accomp |-> ac, pcomp |-> pc]

TxIdle ==
  [op |-> "none", pending |-> FALSE,
   prev |-> [sent |-> FALSE, short |-> FALSE, lead |-> FALSE, now |-> <<0, 0>>]]
RtIdle == [pc |-> "off"]
\* PPP_INPROC_MULTITHREADED = 0: pppos_input calls ppp_input itself
TcpipOff == [on |-> FALSE, mbox |-> <<>>]
\* no reference framer runs beside the framer
RefOff == <<>>
MtIdle == [pc |-> "off"]
\* the receive thread between two characters, the link connected
MtStart ==
  [pc |-> "idle", link |-> "up", reg_head |-> NULL, reg_tail |-> NULL, cur |-> 0,
   cmd |-> [name |-> "none", had |-> FALSE, notes |-> <<>>]]

RxStart(accm) ==
  /\ pcrx = RxInit(accm)
  /\ pool = EmptyPool
  /\ stats = StatsInit
  /\ upper = <<>>
  /\ fault = "none"
  /\ ev = "none"
  /\ seg = <<>>
  /\ opened = FALSE
  /\ starved = FALSE
  /\ nbytes = 0

TxStart(accm, ac, pc) ==
  /\ ppp = PppInit(accm, ac, pc)
  /\ tx = TxIdle
  /\ ncalls = 0

SetWorld(w) ==
  /\ pcrx' = w.pcrx
  /\ pool' = w.pool
  /\ stats' = w.stats
  /\ upper' = w.upper
  /\ fault' = w.fault
  /\ ev' = w.ev
  /\ tcpip' = w.tcpip

----------------------------------------------------------------------------
(* Spec: wire bytes handed to pppos_input one at a time *)

\* the receive ACCMs the link runs with
RxAccms == {AccmDefault, AccmCtrl}

\* the wire bytes tried in every state
RxAlphabet == {PPP_FLAG, PPP_ESCAPE, PPP_ALLSTATIONS, PPP_UI, \h21, \h5e}

\* the wire bytes that take the running FCS towards PPP_GOODFCS: the low
\* byte of its complement and, where one exists, the byte that completes it
FcsBytesOf(p) ==
  LET f == p.in_fcs
      raw == {Not16(f) % 256} \cup
             (IF f \div 256 = \h0f THEN {BitXor(f % 256, \h87)} ELSE {})
  IN  {IF p.in_escaped # 0 THEN BitXor(b, PPP_TRANS) ELSE b : b \in raw}

FcsBytes == FcsBytesOf(pcrx)

\* whether character c makes pppos_input allocate a buffer
RxAllocates(c) ==
  /\ ~ESCAPE_P(pcrx.in_accm, c)
  /\ pcrx.in_state = PDDATA
  /\ IF pcrx.in_tail = NULL THEN TRUE
     ELSE pool[pcrx.in_tail].len = PBUF_POOL_BUFSIZE

\* whether the receive ACCM makes character c a FLAG
IsFlag(c) == c = PPP_FLAG /\ ESCAPE_P(pcrx.in_accm, c)

\* the history of the wire after character c has been processed
RxHistory(c) ==
  /\ seg' = IF IsFlag(c) THEN <<>> ELSE Append(seg, c)
  /\ opened' = (opened \/ IsFlag(c))
  /\ starved' = IF IsFlag(c) THEN FALSE ELSE (starved \/ ev' = "nomem")
  /\ nbytes' = nbytes + 1
  /\ ref' = ref

\* pppos_input(pcb, &c, 1)
pppos_input(c, ok) ==
  /\ fault = "none"
  /\ nbytes < MaxInput
  /\ Len(seg) < MaxFrame \/ c = PPP_FLAG
  /\ ok \/ RxAllocates(c)
  /\ SetWorld(pppos_input_byte(World, c, ok))
  /\ RxHistory(c)
  /\ UNCHANGED <<ppp, tx, ncalls, rt, mt>>

Init ==
  /\ \E a \in RxAccms : RxStart(a)
  /\ TxStart(AccmDefault, FALSE, FALSE)
  /\ rt = RtIdle
  /\ mt = MtIdle
  /\ ref = RefOff
  /\ tcpip = TcpipOff

Next ==
  \E c \in RxAlphabet \cup FcsBytes, ok \in BOOLEAN : pppos_input(c, ok)

Spec == Init /\ [][Next]_vars

----------------------------------------------------------------------------
(* SpecIN: the byte stream handed to pppos_input in calls of one to        *)
(* MaxChunk characters.  An allocation fails when the pool is empty.       *)

\* the while loop of lines 429-637 over the characters of s
RECURSIVE pppos_input_while(_, _)
pppos_input_while(w, s) ==
  IF s = <<>> \/ w.fault # "none" THEN w
  ELSE pppos_input_while(pppos_input_byte(w, Head(s), TRUE), Tail(s))

\* pppos_input with the escape state kept in a local of the call
pppos_input_call_local_escape(w, s) ==
  pppos_input_while([w EXCEPT !.pcrx.in_escaped = 0], s)

\* pppos_input(pcb, s, l): the locals are assigned in every turn before
\* they are read, all framer state lives in pcb->rx
pppos_input_call(w, s) == pppos_input_while(w, s)

\* the characters of s handed to pppos_input one per call
RECURSIVE OneAtATime(_, _)
OneAtATime(w, s) ==
  IF s = <<>> THEN w ELSE OneAtATime(pppos_input_call(w, <<Head(s)>>), Tail(s))

\* the wire bytes tried in every state of SpecIN
InAlphabet == {PPP_FLAG, PPP_ESCAPE, \h21}

\* the history of the wire across the characters of s: h holds seg, opened
\* and starved, w the framer before the first character of s
RECURSIVE InHistory(_, _, _)
InHistory(w, h, s) ==
  IF s = <<>> \/ w.fault # "none" THEN h
  ELSE LET c == Head(s)
           flag == c = PPP_FLAG /\ ESCAPE_P(w.pcrx.in_accm, c)
           w1 == pppos_input_byte(w, c, TRUE)
       IN  InHistory(w1,
                     [seg |-> IF flag THEN <<>> ELSE Append(h.seg, c),
                      opened |-> (h.opened \/ flag),
                      starved |-> IF flag THEN FALSE ELSE (h.starved \/ w1.ev = "nomem")],
                     Tail(s))

\* the arguments of one call: up to n characters, each from the alphabet or
\* one that takes the running FCS towards PPP_GOODFCS
RECURSIVE Chunks(_, _, _)
Chunks(w, sg, n) ==
  IF n = 0 \/ w.fault # "none" THEN {}
  ELSE UNION { {<<c>>} \cup
               { <<c>> \o t : t \in Chunks(pppos_input_byte(w, c, TRUE),
                                            IF c = PPP_FLAG THEN <<>> ELSE Append(sg, c),
                                            n - 1) } :
               c \in {x \in InAlphabet \cup FcsBytesOf(w.pcrx) :
                        Len(sg) < MaxRun \/ x = PPP_FLAG} }

\* pppos_input(pcb, s, Len(s))
pppos_input_chunk(s) ==
  /\ fault = "none"
  /\ nbytes + Len(s) <= MaxStream
  /\ SetWorld(pppos_input_call(World, s))
  /\ LET h == InHistory(World, [seg |-> seg, opened |-> opened, starved |-> starved], s)
     IN  /\ seg' = h.seg
         /\ opened' = h.opened
         /\ starved' = h.starved
  /\ nbytes' = nbytes + Len(s)
  /\ ref' = OneAtATime(ref, s)
  /\ UNCHANGED <<ppp, tx, ncalls, rt, mt>>

InitIN ==
  /\ RxStart(AccmDefault)
  /\ TxStart(AccmDefault, FALSE, FALSE)
  /\ rt = RtIdle
  /\ mt = MtIdle
  /\ tcpip = TcpipOff
  /\ ref = [World EXCEPT !.tcpip = TcpipOff]

NextIN == \E s \in Chunks(World, seg, MaxChunk) : pppos_input_chunk(s)

SpecIN == InitIN /\ [][NextIN]_vars

----------------------------------------------------------------------------
(* SpecQ: the PPP_INPROC_MULTITHREADED build.  pppos_input posts every     *)
(* good packet to the mailbox of the tcpip thread, which later runs        *)
(* pppos_input_callback on it.                                             *)

TcpipOn == [on |-> TRUE, mbox |-> <<>>]

QAlphabet == {PPP_FLAG, \h21}

\* pppos_input(pcb, &c, 1), the allocation failing when the pool is empty
QInput(c) ==
  /\ fault = "none"
  /\ nbytes < MaxQInput
  /\ Len(seg) < MaxQRun \/ c = PPP_FLAG
  /\ SetWorld(pppos_input_call(World, <<c>>))
  /\ RxHistory(c)
  /\ UNCHANGED <<ppp, tx, ncalls, rt, mt>>

\* the tcpip thread takes a message from its mailbox
TcpipThread ==
  /\ fault = "none"
  /\ tcpip.mbox # <<>>
  /\ SetWorld(pppos_input_callback(World))
  /\ UNCHANGED <<seg, opened, starved, nbytes, ref, ppp, tx, ncalls, rt, mt>>

InitQ ==
  /\ RxStart(AccmDefault)
  /\ TxStart(AccmDefault, FALSE, FALSE)
  /\ rt = RtIdle
  /\ mt = MtIdle
  /\ ref = RefOff
  /\ tcpip = TcpipOn

NextQ ==
  \/ \E c \in QAlphabet \cup FcsBytes : QInput(c)
  \/ TcpipThread

SpecQ == InitQ /\ [][NextQ]_vars

----------------------------------------------------------------------------
(* The transmit framer.  The chain under construction is local to one call *)
(* of an entry point: b.chain holds the payload of each buffer in order,   *)
(* b.tail tells whether the tail pointer is non-null, b.nalloc counts the  *)
(* pbuf_alloc calls made and b.memerr the LINK_STATS_INC(link.memerr)      *)
(* done.  failAt is the number of the pbuf_alloc call that fails in this   *)
(* call of the entry point (0: none).                                      *)

\* sys_jiffies() and last_xmit are u32_t: a tick count is the pair of its
\* high and low 16-bit halves
Half == 65536

Tick(hi, lo) == <<hi, lo>>

\* a - b in u32_t
Sub32(a, b) ==
  LET borrow == IF a[2] < b[2] THEN 1 ELSE 0
  IN  Tick((a[1] - b[1] - borrow) % Half, (a[2] - b[2]) % Half)

\* a >= n in u32_t, for n < 2^16
Geq32(a, n) == a[1] > 0 \/ a[2] >= n

\* a null ext_accm pointer
NoAccm == <<>>

\* head = pbuf_alloc(PBUF_RAW, 0, PBUF_POOL); tail = head
tx_head(failAt) ==
  IF failAt = 1
  THEN [chain |-> <<>>, tail |-> FALSE, nalloc |-> 1, memerr |-> 0]
  ELSE [chain |-> << <<>> >>, tail |-> TRUE, nalloc |-> 1, memerr |-> 0]

\* pppos_append with the escaped byte left as it is (no XOR with PPP_TRANS)
pppos_append_no_xor(c, b, out_accm, failAt) ==
  LET n == Len(b.chain)
      grow == b.tail /\ (PBUF_POOL_BUFSIZE - Len(b.chain[n])) < 2
      b1 == IF grow
            THEN IF failAt = b.nalloc + 1
                 THEN [b EXCEPT !.tail = FALSE, !.nalloc = @ + 1, !.memerr = @ + 1]
                 ELSE [b EXCEPT !.chain = Append(@, <<>>), !.nalloc = @ + 1]
            ELSE b
      m == Len(b1.chain)
  IN  IF b1.tail
      THEN IF out_accm # NoAccm /\ ESCAPE_P(out_accm, c)
           THEN [b1 EXCEPT !.chain[m] = @ \o <<PPP_ESCAPE, c>>]
           ELSE [b1 EXCEPT !.chain[m] = Append(@, c)]
      ELSE b1

\* pppos_append with the room test of line 846 asking for one free byte
pppos_append_room_for_one(c, b, out_accm, failAt) ==
  LET n == Len(b.chain)
      grow == b.tail /\ (PBUF_POOL_BUFSIZE - Len(b.chain[n])) < 1
      b1 == IF grow
            THEN IF failAt = b.nalloc + 1
                 THEN [b EXCEPT !.tail = FALSE, !.nalloc = @ + 1, !.memerr = @ + 1]
                 ELSE [b EXCEPT !.chain = Append(@, <<>>), !.nalloc = @ + 1]
            ELSE b
      m == Len(b1.chain)
  IN  IF b1.tail
      THEN IF out_accm # NoAccm /\ ESCAPE_P(out_accm, c)
           THEN [b1 EXCEPT !.chain[m] = @ \o <<PPP_ESCAPE, BitXor(c, PPP_TRANS)>>]
           ELSE [b1 EXCEPT !.chain[m] = Append(@, c)]
      ELSE b1

\* pppos_append(c, nb, out_accm)
pppos_append(c, b, out_accm, failAt) ==
  LET n == Len(b.chain)
      grow == b.tail /\ (PBUF_POOL_BUFSIZE - Len(b.chain[n])) < 2
      b1 == IF grow
            THEN IF failAt = b.nalloc + 1
                 THEN [b EXCEPT !.tail = FALSE, !.nalloc = @ + 1, !.memerr = @ + 1]
                 ELSE [b EXCEPT !.chain = Append(@, <<>>), !.nalloc = @ + 1]
            ELSE b
      m == Len(b1.chain)
  IN  IF b1.tail
      THEN IF out_accm # NoAccm /\ ESCAPE_P(out_accm, c)
           THEN [b1 EXCEPT !.chain[m] = @ \o <<PPP_ESCAPE, BitXor(c, PPP_TRANS)>>]
           ELSE [b1 EXCEPT !.chain[m] = Append(@, c)]
      ELSE b1

\* pppos_append over the bytes of s, in order
RECURSIVE tx_append_all(_, _, _, _)
tx_append_all(s, b, out_accm, failAt) ==
  IF s = <<>> THEN b
  ELSE tx_append_all(Tail(s), pppos_append(Head(s), b, out_accm, failAt), out_accm, failAt)

\* the FCS bytes with the high byte first
tx_fcs_bytes_hi_first(fcs_out) ==
  << (Not16(fcs_out) \div 256) % 256, Not16(fcs_out) % 256 >>

\* c = ~fcs_out & 0xFF, then c = (~fcs_out >> 8) & 0xFF
tx_fcs_bytes(fcs_out) ==
  << Not16(fcs_out) % 256, (Not16(fcs_out) \div 256) % 256 >>

\* the idle test without the wrap of the tick counter
tx_idle_no_wrap(now, last_xmit) ==
  \/ now[1] > last_xmit[1]
  \/ now[1] = last_xmit[1] /\ now[2] - last_xmit[2] >= PPP_MAXIDLEFLAG

\* the test (sys_jiffies() - ppp->last_xmit) >= PPP_MAXIDLEFLAG, in u32_t
tx_idle(now, last_xmit) ==
  Geq32(Sub32(now, last_xmit), PPP_MAXIDLEFLAG)

\* tx_build without the closing FLAG of line 190/307
tx_build_no_closing_flag(logical, now, last_xmit, out_accm, failAt) ==
  LET b0 == tx_head(failAt)
      b1 == IF tx_idle(now, last_xmit) THEN pppos_append(PPP_FLAG, b0, NoAccm, failAt) ELSE b0
      fcs_out == FcsFold(PPP_INITFCS, logical)
      b2 == tx_append_all(logical, b1, out_accm, failAt)
  IN  tx_append_all(tx_fcs_bytes(fcs_out), b2, out_accm, failAt)

\* the chain of a frame: the leading flag when the link was idle, the
\* logical bytes and their FCS (low byte first) escaped, the closing flag
tx_build(logical, now, last_xmit, out_accm, failAt) ==
  LET b0 == tx_head(failAt)
      b1 == IF tx_idle(now, last_xmit) THEN pppos_append(PPP_FLAG, b0, NoAccm, failAt) ELSE b0
      fcs_out == FcsFold(PPP_INITFCS, logical)
      b2 == tx_append_all(logical, b1, out_accm, failAt)
      b3 == tx_append_all(tx_fcs_bytes(fcs_out), b2, out_accm, failAt)
  IN  pppos_append(PPP_FLAG, b3, NoAccm, failAt)

\* pppos_xmit: the segments offered to sio_write; shortAt is the number of
\* the sio_write call that returns less than it was offered (0: none)
tx_offered(chain, shortAt) ==
  IF shortAt >= 1 /\ shortAt <= Len(chain) THEN SubSeq(chain, 1, shortAt) ELSE chain

tx_short(chain, shortAt) == shortAt >= 1 /\ shortAt <= Len(chain)

\* the header with the protocol sent in one byte whenever PFC is on
tx_header_short_protocol(protocol, accomp, pcomp) ==
  (IF ~accomp THEN <<PPP_ALLSTATIONS, PPP_UI>> ELSE <<>>)
  \o (IF ~pcomp THEN << (protocol \div 256) % 256 >> ELSE <<>>)
  \o << protocol % 256 >>

\* the header of pppos_link_netif_output_callback (lines 269-282)
tx_header(protocol, accomp, pcomp) ==
  (IF ~accomp THEN <<PPP_ALLSTATIONS, PPP_UI>> ELSE <<>>)
  \o (IF ~pcomp \/ protocol > \hff THEN << (protocol \div 256) % 256 >> ELSE <<>>)
  \o << protocol % 256 >>

\* the bytes of a pbuf chain pb, given as the sequence of its segments
RECURSIVE Flatten(_)
Flatten(segs) == IF segs = <<>> THEN <<>> ELSE Head(segs) \o Flatten(Tail(segs))

\* what one call of a transmit entry point does, as a record:
\*   logical  the bytes the FCS covers,
\*   reached  whether the call got past the first pbuf_alloc (line 171/268),
\*   failed   whether a pbuf_alloc of the call returned NULL,
\*   complete whether the tail pointer is non-null at line 194/310,
\*   sent     whether pppos_xmit was called,
\*   offered  the segments passed to sio_write,
\*   freed    the number of pbuf_free calls on the head of the built chain,
\*   memerr   the number of LINK_STATS_INC(link.memerr) done,
\*   pending  whether a short write has happened with no frame sent since,
\*   prev     the call before this one
tx_record(op, logical, now, shortAt, b, reached, sent, short) ==
  [op |-> op,
   logical |-> logical,
   now |-> now,
   last0 |-> ppp.last_xmit,
   stats0 |-> stats,
   after_short |-> tx.pending,
   prev |-> tx.prev,
   reached |-> reached,
   failed |-> ~reached \/ b.memerr > 0,
   lead |-> reached /\ tx_idle(now, ppp.last_xmit),
   chain |-> b.chain,
   complete |-> b.tail,
   nalloc |-> b.nalloc,
   sent |-> sent,
   offered |-> IF sent THEN tx_offered(b.chain, shortAt) ELSE <<>>,
   short |-> short,
   freed |-> IF reached THEN 1 ELSE 0,
   memerr |-> b.memerr + (IF ~sent THEN 1 ELSE 0),
   ret |-> IF sent THEN (IF op = "write" THEN "PPPERR_NONE" ELSE "ERR_OK")
           ELSE (IF op = "write" THEN "PPPERR_ALLOC" ELSE "ERR_MEM"),
   pending |-> IF short THEN TRUE ELSE IF sent THEN FALSE ELSE tx.pending]

\* the test of the tail pointer (line 194/310) left out
tx_sent_anyway(b, failAt) == failAt # 1

tx_sent(b, failAt) == failAt # 1 /\ b.tail

tx_built(op, logical, now, failAt, shortAt, b) ==
  tx_record(op, logical, now, shortAt, b, failAt # 1, tx_sent(b, failAt),
            tx_sent(b, failAt) /\ tx_short(b.chain, shortAt))

tx_call(op, logical, now, failAt, shortAt) ==
  tx_built(op, logical, now, failAt, shortAt,
           tx_build(logical, now, ppp.last_xmit, ppp.out_accm, failAt))

\* the variables after the call recorded in r
tx_commit(r) ==
  /\ tx' = r
  /\ ppp' = [ppp EXCEPT !.last_xmit = IF r.short THEN Tick(0, 0)
                                      ELSE IF r.reached THEN r.now
                                      ELSE @]
  /\ stats' = [stats EXCEPT
       !.memerr = @ + r.memerr,
       !.proterr = @ + (IF ~r.sent /\ r.op = "write" THEN 1 ELSE 0),
       !.drop = @ + (IF ~r.sent /\ r.op = "netif" THEN 1 ELSE 0),
       !.err = @ + (IF r.short THEN 1 ELSE 0),
       !.xmit = @ + (IF r.sent /\ ~r.short THEN 1 ELSE 0)]
  /\ ncalls' = ncalls + 1

\* pppos_link_write_callback(pcb, p): s holds the p->len bytes of p
pppos_link_write_callback(s, now, failAt, shortAt) ==
  /\ tx.op = "none"
  /\ ncalls < MaxCalls
  /\ tx_commit(tx_call("write", s, now, failAt, shortAt))
  /\ UNCHANGED <<pcrx, pool, upper, fault, ev, tcpip, seg, opened, starved, nbytes, ref, rt, mt>>

\* pppos_link_netif_output_callback(pcb, pb, protocol), VJ_SUPPORT = 0
pppos_link_netif_output_callback(pb, protocol, now, failAt, shortAt) ==
  /\ tx.op = "none"
  /\ ncalls < MaxCalls
  /\ tx_commit(tx_call("netif",
                       tx_header(protocol, ppp.accomp, ppp.pcomp) \o Flatten(pb),
                       now, failAt, shortAt))
  /\ UNCHANGED <<pcrx, pool, upper, fault, ev, tcpip, seg, opened, starved, nbytes, ref, rt, mt>>

\* the entry point has returned to the PPP core; the record of the call is dropped
TxReturn ==
  /\ tx.op # "none"
  /\ tx' = [op |-> "none", pending |-> tx.pending,
            prev |-> [sent |-> tx.sent, short |-> tx.short, lead |-> tx.lead, now |-> tx.now]]
  /\ UNCHANGED <<pcrx, pool, stats, upper, fault, ev, tcpip, seg, opened, starved, nbytes, ref,
                 ppp, ncalls, rt, mt>>

----------------------------------------------------------------------------
(* SpecTX: one call of a transmit entry point on a fresh link, for every   *)
(* transmit ACCM and compression setting.  SpecTXN: successive calls on a  *)
(* link with the default ACCM and no header compression.                   *)

\* the transmit ACCMs the link runs with: the default, the control
\* characters, and maps that also mark 0x5d or 0x5e
Accm5D == AccmWith(AccmDefault, \h5d)

Accm5E == AccmWith(AccmDefault, \h5e)

TxAccms == {AccmDefault, AccmCtrl, Accm5D, Accm5E}

TxAlphabet == {PPP_FLAG, \h5d, \h5e}

RECURSIVE SeqsUpTo(_, _)
SeqsUpTo(S, n) ==
  IF n = 0 THEN {<<>>}
  ELSE LET shorter == SeqsUpTo(S, n - 1)
       IN  shorter \cup {Append(s, x) : s \in {t \in shorter : Len(t) = n - 1}, x \in S}

TxPayloads == SeqsUpTo(TxAlphabet, MaxPayload)

\* pbuf chains pb: one segment, or a first segment of one byte and the rest
TxChains ==
  {<<s>> : s \in TxPayloads}
  \cup {<<SubSeq(s, 1, 1), SubSeq(s, 2, Len(s))>> : s \in {t \in TxPayloads : Len(t) >= 2}}

TxProtocols == {\h0021, \hc021}

\* values of sys_jiffies()
TickSamples == {Tick(0, 50), Tick(0, 150), Tick(Half - 1, Half - 1)}

\* the most pbuf_alloc or sio_write calls one frame can need
MaxSegments == 2 + ((2 * (MaxPayload + 6) + 2) \div (PBUF_POOL_BUFSIZE - 1))

InitTX ==
  /\ RxStart(AccmDefault)
  /\ \E a \in TxAccms, ac \in BOOLEAN, pc \in BOOLEAN : TxStart(a, ac, pc)
  /\ rt = RtIdle
  /\ mt = MtIdle
  /\ ref = RefOff
  /\ tcpip = TcpipOff

\* the outcomes of the allocations and serial writes of one call: none
\* fails (0), the k-th pbuf_alloc fails (k), or the k-th sio_write is
\* short (MaxSegments + k)
FailAt(k) == IF k <= MaxSegments THEN k ELSE 0

ShortAt(k) == IF k > MaxSegments THEN k - MaxSegments ELSE 0

\* the outcomes of a call that, with nothing failing, builds the chain of b
TxOutcomes(b) ==
  {0} \cup (1..b.nalloc) \cup {MaxSegments + j : j \in 1..Len(b.chain)}

\* the outcomes of a call that frames the bytes logical at tick now
TxOutcomesOf(logical, now) ==
  TxOutcomes(tx_build(logical, now, ppp.last_xmit, ppp.out_accm, 0))

TxReady == tx.op = "none" /\ ncalls < MaxCalls

NextTX ==
  \/ \E s \in TxPayloads, now \in TickSamples :
       /\ TxReady
       /\ \E k \in TxOutcomesOf(s, now) :
            pppos_link_write_callback(s, now, FailAt(k), ShortAt(k))
  \/ \E pb \in TxChains, protocol \in TxProtocols, now \in TickSamples :
       /\ TxReady
       /\ \E k \in TxOutcomesOf(tx_header(protocol, ppp.accomp, ppp.pcomp) \o Flatten(pb), now) :
            pppos_link_netif_output_callback(pb, protocol, now, FailAt(k), ShortAt(k))

SpecTX == InitTX /\ [][NextTX]_vars

InitTXN ==
  /\ RxStart(AccmDefault)
  /\ TxStart(AccmDefault, FALSE, FALSE)
  /\ rt = RtIdle
  /\ mt = MtIdle
  /\ ref = RefOff
  /\ tcpip = TcpipOff

NextTXN == NextTX \/ TxReturn

SpecTXN == InitTXN /\ [][NextTXN]_vars

----------------------------------------------------------------------------
(* SpecRT: one frame built by pppos_link_netif_output_callback, with every *)
(* allocation and serial write succeeding, is handed byte by byte to the   *)
(* pppos_input of a link with the same ACCM.  The receive framer is fresh  *)
(* (PDIDLE), or has seen the closing FLAG of earlier traffic.              *)

RtAccms == {AccmDefault, AccmCtrl, Accm5D}

RtAlphabet == {PPP_FLAG, \h5d, \h41}

RtPayloads == SeqsUpTo(RtAlphabet, MaxRtPayload)

\* pbuf chains pb: one segment, or a first segment of one byte and the rest
RtChains ==
  {<<s>> : s \in RtPayloads}
  \cup {<<SubSeq(s, 1, 1), SubSeq(s, 2, Len(s))>> : s \in {t \in RtPayloads : Len(t) >= 2}}

\* protocol numbers with an even high byte and an odd low byte
RtProtocols == {\h0021, \hc021, \h0003, \h00ff}

InitRT ==
  /\ \E a \in RtAccms :
       /\ RxStart(a)
       /\ \E ac \in BOOLEAN, pc \in BOOLEAN : TxStart(a, ac, pc)
  /\ rt = RtIdle
  /\ mt = MtIdle
  /\ ref = RefOff
  /\ tcpip = TcpipOff

\* pppos_input(pcb, &c, 1) with the allocation, if any, succeeding
rt_input(c) ==
  /\ SetWorld(pppos_input_byte(World, c, TRUE))
  /\ RxHistory(c)

\* a FLAG of earlier traffic reaches the receiver
RtFlag ==
  /\ rt.pc = "off"
  /\ pcrx.in_state = PDIDLE
  /\ rt_input(PPP_FLAG)
  /\ UNCHANGED <<ppp, tx, ncalls, rt, mt>>

\* the serial line after pppos_xmit has written the chain of the call in r
rt_wire(r, pb, protocol) ==
  [pc |-> "wire", wire |-> Flatten(r.offered), protocol |-> protocol,
   payload |-> Flatten(pb), led |-> r.lead, idle |-> pcrx.in_state = PDIDLE]

\* pppos_link_netif_output_callback(pcb, pb, protocol)
RtOutput(pb, protocol, now) ==
  /\ rt.pc = "off"
  /\ \E r \in {tx_call("netif", tx_header(protocol, ppp.accomp, ppp.pcomp) \o Flatten(pb),
                       now, 0, 0)} :
       /\ tx_commit(r)
       /\ rt' = rt_wire(r, pb, protocol)
  /\ UNCHANGED <<pcrx, pool, upper, fault, ev, tcpip, seg, opened, starved, nbytes, ref, mt>>

\* the next byte of the serial line reaches pppos_input
RtInput ==
  /\ rt.pc = "wire"
  /\ rt.wire # <<>>
  /\ rt_input(Head(rt.wire))
  /\ rt' = [rt EXCEPT !.wire = Tail(@)]
  /\ UNCHANGED <<ppp, tx, ncalls, mt>>

NextRT ==
  \/ RtFlag
  \/ \E pb \in RtChains, protocol \in RtProtocols, now \in TickSamples : RtOutput(pb, protocol, now)
  \/ RtInput

SpecRT == InitRT /\ [][NextRT]_vars

----------------------------------------------------------------------------
(* SpecMT: a receive thread runs pppos_input character by character while  *)
(* the PPP engine issues link commands on another thread.  Nothing orders  *)
(* the two threads, so a command can run between any two accesses of the   *)
(* receive thread.  The turn of the loop that stores a data byte is taken  *)
(* in two steps (the room test of lines 581-626, the store of line 628),   *)
(* and so is the drop of a frame at a FLAG (the tests of lines 769-770,    *)
(* the pbuf_free calls of lines 771-773).  The store and the frees use the *)
(* pointers the thread loaded in the first step, or load them again: the   *)
(* compiler is free to do either.  Every other turn and every command is   *)
(* one step.                                                               *)

MtAlphabet == {PPP_FLAG, PPP_ALLSTATIONS, \h21}

\* The link commands work on a record l that holds the fields of World,
\* the transmit side ppp and notes, the notifications the command has made
\* to the PPP engine.
Link ==
  [pcrx |-> pcrx, pool |-> pool, stats |-> stats, upper |-> upper,
   fault |-> fault, ev |-> ev, tcpip |-> tcpip, ppp |-> ppp, notes |-> <<>>]

\* the number of buffers the receive framer owns
Held(pl) == Cardinality({i \in PbufId : pl[i].st = "rx"})

\* ppp_clear zeroes the session state of the ppp_pcb, both ACCMs included
ppp_clear(l) ==
  [l EXCEPT !.pcrx = RxInit(AccmZero), !.ppp = PppInit(AccmZero, FALSE, FALSE)]

\* ppp_start(ppp): the PPP engine is told to begin, and sees the link as it is
ppp_start(l) ==
  [l EXCEPT !.notes = Append(@, [what |-> "ppp_start", pcrx |-> l.pcrx,
                                 ppp |-> l.ppp, held |-> Held(l.pool)])]

\* ppp_link_end(ppp)
ppp_link_end(l) == [l EXCEPT !.notes = Append(@, [what |-> "ppp_link_end"])]

\* pppos_connect with ppp_start called before the ACCMs are set
pppos_connect_start_early(l) ==
  LET l1 == ppp_start(ppp_clear(pppos_free_current_input_packet(l)))
  IN  [l1 EXCEPT !.pcrx.in_accm[15] = \h60, !.ppp.out_accm[15] = \h60]

\* pppos_connect
pppos_connect(l) ==
  LET l1 == ppp_clear(pppos_free_current_input_packet(l))
  IN  ppp_start([l1 EXCEPT !.pcrx.in_accm[15] = \h60, !.ppp.out_accm[15] = \h60])

\* pppos_disconnect that frees the input packet
pppos_disconnect_frees(l) == ppp_link_end(pppos_free_current_input_packet(l))

\* pppos_disconnect: ppp_link_end only, the input packet is left alone
pppos_disconnect(l) == ppp_link_end(l)

\* pppos_destroy
pppos_destroy(l) == pppos_free_current_input_packet(l)

InitMT ==
  /\ RxStart(AccmDefault)
  /\ TxStart(AccmDefault, FALSE, FALSE)
  /\ rt = RtIdle
  /\ mt = MtStart
  /\ ref = RefOff
  /\ tcpip = TcpipOff

\* the receive thread may start the turn for another character
MtReady ==
  /\ fault = "none"
  /\ mt.pc = "idle"
  /\ mt.link # "gone"
  /\ nbytes < MaxInput

\* character c reaches line 628
MtStores(c) == ~ESCAPE_P(pcrx.in_accm, c) /\ pcrx.in_state = PDDATA

\* character c is a FLAG that drops a frame with buffers (lines 455, 463)
MtDrops(c) ==
  /\ IsFlag(c)
  /\ pcrx.in_state > PDADDRESS
  /\ pcrx.in_state < PDDATA \/ pcrx.in_fcs # PPP_GOODFCS
  /\ pcrx.in_head # NULL

\* a turn of the loop of pppos_input that neither stores nor frees
MtInput(c) ==
  /\ MtReady
  /\ Len(seg) < MaxFrame \/ c = PPP_FLAG
  /\ ~MtStores(c) /\ ~MtDrops(c)
  /\ SetWorld(pppos_input_byte(World, c, TRUE))
  /\ RxHistory(c)
  /\ UNCHANGED <<ppp, tx, ncalls, rt, mt>>

\* lines 516-626 for a data byte: unescape, make room
MtCheck(c) ==
  /\ MtReady
  /\ Len(seg) < MaxFrame
  /\ MtStores(c)
  /\ LET cur == IF pcrx.in_escaped # 0 THEN BitXor(c, PPP_TRANS) ELSE c
         w1 == rx_data_room([World EXCEPT !.pcrx.in_escaped = 0], TRUE)
     IN  IF w1.fault # "none" \/ w1.ev = "nomem"
         THEN /\ SetWorld(pppos_input_byte(World, c, TRUE))
              /\ mt' = mt
         ELSE /\ SetWorld(w1)
              /\ mt' = [mt EXCEPT !.pc = "store", !.reg_tail = w1.pcrx.in_tail, !.cur = cur]
  /\ RxHistory(c)
  /\ UNCHANGED <<ppp, tx, ncalls, rt>>

\* lines 628 and 635: the store through in_tail, loaded again (reload) or
\* kept from the room test, and the FCS update
MtStore(reload) ==
  /\ fault = "none"
  /\ mt.pc = "store"
  /\ LET p == IF reload THEN pcrx.in_tail ELSE mt.reg_tail
         w1 == rx_data_store(World, p, mt.cur)
     IN  SetWorld(IF w1.fault # "none" THEN w1
                  ELSE [w1 EXCEPT !.pcrx.in_fcs = PPP_FCS(@, mt.cur)])
  /\ mt' = [mt EXCEPT !.pc = "idle", !.reg_tail = NULL, !.cur = 0]
  /\ UNCHANGED <<seg, opened, starved, nbytes, ref, ppp, tx, ncalls, rt>>

\* lines 450-463 and 769-770 at a FLAG: count the error, test the pointers
MtDropLoad(c) ==
  /\ MtReady
  /\ MtDrops(c)
  /\ SetWorld(IF pcrx.in_state < PDDATA
              THEN [World EXCEPT !.stats.lenerr = @ + 1, !.ev = "lenerr"]
              ELSE [World EXCEPT !.stats.chkerr = @ + 1, !.ev = "chkerr"])
  /\ mt' = [mt EXCEPT !.pc = "free", !.reg_head = pcrx.in_head, !.reg_tail = pcrx.in_tail]
  /\ RxHistory(c)
  /\ UNCHANGED <<ppp, tx, ncalls, rt>>

\* lines 771-776, the rest of pppos_drop, and lines 506-508
MtDropFree ==
  /\ fault = "none"
  /\ mt.pc = "free"
  /\ LET w1 == [free_loaded(World, mt.reg_head, mt.reg_tail) EXCEPT !.stats.drop = @ + 1]
     IN  SetWorld(IF w1.fault # "none" THEN w1
                  ELSE [w1 EXCEPT !.pcrx.in_fcs = PPP_INITFCS,
                                  !.pcrx.in_state = PDADDRESS,
                                  !.pcrx.in_escaped = 0])
  /\ mt' = [mt EXCEPT !.pc = "idle", !.reg_head = NULL, !.reg_tail = NULL]
  /\ UNCHANGED <<seg, opened, starved, nbytes, ref, ppp, tx, ncalls, rt>>

\* PPP_LINK_COMMAND_CONNECT on the thread of the PPP engine
MtConnect ==
  /\ fault = "none"
  /\ mt.link = "down"
  /\ LET l == pppos_connect(Link)
     IN  /\ SetWorld(l)
         /\ ppp' = l.ppp
         /\ mt' = [mt EXCEPT !.link = "up",
                             !.cmd = [name |-> "connect", had |-> pcrx.in_head # NULL,
                                      notes |-> l.notes]]
  /\ UNCHANGED <<seg, opened, starved, nbytes, ref, tx, ncalls, rt>>

\* PPP_LINK_COMMAND_DISCONNECT
MtDisconnect ==
  /\ fault = "none"
  /\ mt.link = "up"
  /\ LET l == pppos_disconnect(Link)
     IN  /\ SetWorld(l)
         /\ ppp' = l.ppp
         /\ mt' = [mt EXCEPT !.link = "down",
                             !.cmd = [name |-> "disconnect", had |-> pcrx.in_head # NULL,
                                      notes |-> l.notes]]
  /\ UNCHANGED <<seg, opened, starved, nbytes, ref, tx, ncalls, rt>>

\* PPP_LINK_COMMAND_FREE
MtDestroy ==
  /\ fault = "none"
  /\ mt.link = "down"
  /\ LET l == pppos_destroy(Link)
     IN  /\ SetWorld(l)
         /\ ppp' = l.ppp
         /\ mt' = [mt EXCEPT !.link = "gone",
                             !.cmd = [name |-> "free", had |-> pcrx.in_head # NULL,
                                      notes |-> l.notes]]
  /\ UNCHANGED <<seg, opened, starved, nbytes, ref, tx, ncalls, rt>>

NextMT ==
  \/ \E c \in MtAlphabet \cup FcsBytes : MtInput(c)
  \/ \E c \in MtAlphabet \cup FcsBytes : MtCheck(c)
  \/ \E reload \in BOOLEAN : MtStore(reload)
  \/ \E c \in MtAlphabet \cup FcsBytes : MtDropLoad(c)
  \/ MtDropFree
  \/ MtConnect
  \/ MtDisconnect
  \/ MtDestroy

SpecMT == InitMT /\ [][NextMT]_vars

----------------------------------------------------------------------------
(* SpecOWN: wire bytes handed to pppos_input one at a time, with every     *)
(* allocation outcome, and link commands run between two calls; in either  *)
(* build, with the tcpip thread taking its messages at any time.           *)

\* pppos_input(pcb, &c, 1) on a link that has not been freed
OwnInput(c, ok) ==
  /\ mt.link # "gone"
  /\ fault = "none"
  /\ nbytes < MaxOwnInput
  /\ Len(seg) < MaxOwnRun \/ c = PPP_FLAG
  /\ ok \/ RxAllocates(c)
  /\ SetWorld(pppos_input_byte(World, c, ok))
  /\ RxHistory(c)
  /\ UNCHANGED <<ppp, tx, ncalls, rt, mt>>

InitOWN ==
  /\ RxStart(AccmDefault)
  /\ TxStart(AccmDefault, FALSE, FALSE)
  /\ rt = RtIdle
  /\ mt = MtStart
  /\ ref = RefOff
  /\ tcpip \in {TcpipOff, TcpipOn}

NextOWN ==
  \/ \E c \in QAlphabet \cup FcsBytes, ok \in BOOLEAN : OwnInput(c, ok)
  \/ TcpipThread
  \/ MtConnect
  \/ MtDisconnect
  \/ MtDestroy

SpecOWN == InitOWN /\ [][NextOWN]_vars

----------------------------------------------------------------------------
(* Properties of the receive framer *)

\* the logical bytes of a run of wire bytes: ACCM-marked bytes removed, the
\* byte after an ESCAPE XORed with PPP_TRANS
RECURSIVE Unescape(_, _, _)
Unescape(accm, s, esc) ==
  IF s = <<>> THEN <<>>
  ELSE IF ESCAPE_P(accm, Head(s))
       THEN Unescape(accm, Tail(s), esc \/ Head(s) = PPP_ESCAPE)
       ELSE << IF esc THEN BitXor(Head(s), PPP_TRANS) ELSE Head(s) >>
            \o Unescape(accm, Tail(s), FALSE)

\* the step hands a chain to ppp_input
Delivers == Len(upper') > Len(upper)

\* the framer, its buffers, counters and deliveries after the step
WorldAfter == [pcrx |-> pcrx', pool |-> pool', stats |-> stats', upper |-> upper',
               fault |-> fault', ev |-> ev', tcpip |-> tcpip']

FlagStep == nbytes' = nbytes + 1 /\ seg' = <<>>

\* C1: every packet handed to ppp_input comes from a run of wire bytes that
\* lies between two FLAGs and whose logical bytes (header, payload, FCS)
\* fold from PPP_INITFCS to PPP_GOODFCS.  Stated here for the packets
\* delivered once a first FLAG has been received: seg is then the run of
\* bytes between the last FLAG and the FLAG being processed.  (From PDIDLE
\* the framer opens a frame at the first 0xff without a FLAG, by design.)
C1_DeliveredFrameIsFlagDelimited ==
  [][(Delivers /\ opened) =>
       FcsFold(PPP_INITFCS, Unescape(pcrx.in_accm, seg, FALSE)) = PPP_GOODFCS]_vars

\* C7: a FLAG that arrives past PDADDRESS and before PDDATA drops the frame
\* and adds exactly 1 to lenerr; a FLAG that arrives in PDDATA with a
\* running FCS other than PPP_GOODFCS drops the frame, frees the partial
\* chain and adds exactly 1 to chkerr; neither calls ppp_input.
C7_FrameTerminationErrors ==
  [][/\ (FlagStep /\ pcrx.in_state > PDADDRESS /\ pcrx.in_state < PDDATA) =>
          /\ stats'.lenerr = stats.lenerr + 1
          /\ stats'.chkerr = stats.chkerr
          /\ upper' = upper
          /\ pcrx'.in_head = NULL /\ pcrx'.in_tail = NULL
          /\ \A i \in PbufId : pool[i].st = "rx" => pool'[i].st = "free"
     /\ (FlagStep /\ pcrx.in_state = PDDATA /\ pcrx.in_fcs # PPP_GOODFCS) =>
          /\ stats'.chkerr = stats.chkerr + 1
          /\ stats'.lenerr = stats.lenerr
          /\ upper' = upper
          /\ pcrx'.in_head = NULL /\ pcrx'.in_tail = NULL
          /\ \A i \in PbufId : pool[i].st = "rx" => pool'[i].st = "free"]_vars

\* both errors have happened, the check error last, and nothing was delivered
C7_Witness ==
  /\ ev = "chkerr"
  /\ stats.lenerr = 1 /\ stats.chkerr = 1 /\ stats.drop = 2
  /\ upper = <<>>
  /\ \A i \in PbufId : pool[i].st = "free"

\* C9: an allocation failure in PDDATA frees the partial chain, adds 1 to
\* memerr and sets the state to PDSTART, and the bytes of the frame that
\* suffered the failure never produce a delivery.
C9_StarvedFrameIsNeverDelivered ==
  [][/\ ev' = "nomem" /\ nbytes' = nbytes + 1 =>
          /\ pcrx'.in_head = NULL /\ pcrx'.in_tail = NULL
          /\ stats'.memerr = stats.memerr + 1
          /\ pcrx'.in_state = PDSTART
     /\ Delivers => ~starved]_vars

\* a FLAG, a well-formed frame (address, control, protocol 0xc021, the
\* payload 0x41, FCS) stuffed for the ACCM accm, and its terminating FLAG
RecoveryProbe(accm) ==
  Flatten(tx_build(tx_header(\hc021, FALSE, FALSE) \o <<\h41>>,
                   Tick(0, PPP_MAXIDLEFLAG), Tick(0, 0), accm, 0).chain)

\* the number of free buffers of pool pl
FreeCount(pl) == Cardinality({i \in PbufId : pl[i].st = "free"})

\* fed to the framer w, the probe delivers its protocol and payload, and
\* nothing else after its first FLAG, if two buffers are free by then
Recovers(w, probe) ==
  LET w1 == pppos_input_call(w, <<Head(probe)>>)
      w2 == pppos_input_call(w1, Tail(probe))
  IN  FreeCount(w1.pool) >= 2 =>
        /\ w2.fault = "none"
        /\ Len(w2.upper) = Len(w1.upper) + 1
        /\ ChainBytes(w2.pool, w2.upper[Len(w2.upper)]) = <<\hc0, \h21, \h41>>

\* C12: from every state the receive framer can reach, a FLAG followed by a
\* well-formed frame and its terminating FLAG delivers that frame's
\* protocol and payload, when buffers are available.
C12_FramerAlwaysRecovers ==
  fault = "none" => Recovers(World, RecoveryProbe(pcrx.in_accm))

C18_RunningFcs ==
  (opened /\ fault = "none") =>
    pcrx.in_fcs = FcsFold(PPP_INITFCS, Unescape(pcrx.in_accm, seg, FALSE))

\* the last character of s that the ACCM accm does not make pppos_input drop
RECURSIVE LastKept(_, _)
LastKept(accm, s) ==
  IF s = <<>> THEN PPP_FLAG
  ELSE LET c == s[Len(s)]
       IN  IF ESCAPE_P(accm, c) /\ c # PPP_ESCAPE
           THEN LastKept(accm, SubSeq(s, 1, Len(s) - 1))
           ELSE c

\* C19 as stated: in_escaped is set only if the character processed
\* immediately before was the ESCAPE octet.
C19_EscapeDirectlyFollowsEscape ==
  (fault = "none" /\ pcrx.in_escaped # 0) =>
    (seg # <<>> /\ seg[Len(seg)] = PPP_ESCAPE)

\* C19 amended: in_escaped is set exactly when the last character processed
\* that pppos_input did not drop as an ACCM character was the ESCAPE octet,
\* with no FLAG since.
C19_EscapeFollowsLastKept ==
  fault = "none" =>
    (pcrx.in_escaped # 0 <=> LastKept(pcrx.in_accm, seg) = PPP_ESCAPE)

\* an ACCM character was dropped after an ESCAPE, and the escape is pending
C19_Witness ==
  /\ pcrx.in_escaped # 0
  /\ ev = "accm"
  /\ Len(seg) >= 2
  /\ seg[Len(seg) - 1] = PPP_ESCAPE
  /\ pcrx.in_state = PDDATA

\* the bytes the framer holds for the frame under assembly: the chain of
\* in_head and, while it is not linked to it yet, the buffer in_tail
Stored(pl, head, tail) ==
  ChainBytes(pl, head) \o
    (IF tail # NULL /\ tail # head THEN pl[tail].payload ELSE <<>>)

\* C20: the chain delivered for an accepted frame holds the received
\* protocol number, high byte first, then the stored data bytes without
\* the last two (the FCS), and its tot_len is their number, wherever the
\* buffer boundaries fall.
C20_DeliveredChainIsTrimmed ==
  [][(FlagStep /\ Delivers) =>
       LET st == Stored(pool, pcrx.in_head, pcrx.in_tail)
           d == upper'[Len(upper')]
       IN  /\ ChainBytes(pool', d) =
                << (pcrx.in_protocol \div 256) % 256, pcrx.in_protocol % 256 >>
                  \o SubSeq(st, 3, Len(st) - 2)
           /\ pool'[d].tot_len = Len(st) - 2]_vars

\* n FLAGs
Flags(n) == [i \in 1..n |-> PPP_FLAG]

\* the well-formed frame behind the first FLAG of the probe, for the two
\* receive ACCMs
ProbeBody == [a \in RxAccms |-> Tail(RecoveryProbe(a))]

\* w2 has one packet more than w, with the protocol 0xc021 and the payload
\* 0x41, and the counters of w
OnePacketMore(w, w2) ==
  /\ w2.fault = "none"
  /\ Len(w2.upper) = Len(w.upper) + 1
  /\ ChainBytes(w2.pool, w2.upper[Len(w2.upper)]) = <<\hc0, \h21, \h41>>
  /\ w2.stats = w.stats

\* n more FLAGs leave the framer w as it is, and the well-formed frame
\* behind them (address, control, protocol 0xc021, the payload 0x41, FCS,
\* closing FLAG) is delivered as exactly one packet if two buffers are free
AbsorbsFlags(w) ==
  /\ \A n \in 1..MaxFlags : [pppos_input_call(w, Flags(n)) EXCEPT !.ev = w.ev] = w
  /\ FreeCount(w.pool) >= 2 =>
        OnePacketMore(w, pppos_input_call(w, ProbeBody[w.pcrx.in_accm]))

\* C22: a FLAG received in state PDIDLE, PDSTART or PDADDRESS delivers
\* nothing, frees nothing, leaves every buffer and every counter as it
\* was; and whatever number of FLAGs follows it, the well-formed frame
\* behind them is delivered, as exactly one packet.
C22_ExtraFlagsAreAbsorbed ==
  [][(FlagStep /\ pcrx.in_state <= PDADDRESS) =>
       /\ upper' = upper
       /\ pool' = pool
       /\ stats' = stats
       /\ tcpip' = tcpip
       /\ fault' = fault
       /\ pcrx'.in_head = pcrx.in_head /\ pcrx'.in_tail = pcrx.in_tail
       /\ ev' = "extra_flag"
       /\ AbsorbsFlags(WorldAfter)]_vars

\* a FLAG has come right behind the FLAG that closed a delivered frame
C22_Witness ==
  /\ ev = "extra_flag"
  /\ upper # <<>>
  /\ seg = <<>>
  /\ pcrx.in_state = PDADDRESS
  /\ stats = StatsInit

\* C24: when a FLAG arrives in PDDATA with the running FCS at PPP_GOODFCS,
\* in_head and in_tail are non-null, at least two data bytes are stored
\* behind the two protocol bytes, and the chain handed on begins with the
\* two protocol bytes.
C24_AcceptedFrameHoldsItsFcs ==
  [][(FlagStep /\ fault = "none"
        /\ pcrx.in_state = PDDATA /\ pcrx.in_fcs = PPP_GOODFCS) =>
       /\ pcrx.in_head # NULL /\ pcrx.in_tail # NULL
       /\ Len(Stored(pool, pcrx.in_head, pcrx.in_tail)) >= 4
       /\ fault' = "none"
       /\ Delivers
       /\ SubSeq(ChainBytes(pool', upper'[Len(upper')]), 1, 2) =
            << (pcrx.in_protocol \div 256) % 256, pcrx.in_protocol % 256 >>]_vars

\* the buffers of the chain starting at p
RECURSIVE ChainOf(_, _)
ChainOf(pl, p) ==
  IF p = NULL THEN {} ELSE {p} \cup ChainOf(pl, pl[p].next)

\* in w the buffers the framer owns are those of the chain of in_head and
\* the buffer in_tail, the chains handed on belong to the PPP engine or to
\* a message of the tcpip thread, no buffer has been freed twice, and none
\* was touched after it was freed or handed on
OwnedIn(w) ==
  /\ w.fault \notin {"not_owner", "double_free", "use_after_free"}
  /\ {i \in PbufId : w.pool[i].st = "rx"} =
       ChainOf(w.pool, w.pcrx.in_head) \cup ({w.pcrx.in_tail} \ {NULL})
  /\ w.pcrx.in_head = NULL => w.pcrx.in_tail = NULL
  /\ \A k \in 1..Len(w.upper) :
       \A i \in ChainOf(w.pool, w.upper[k]) : w.pool[i].st = "upper"
  /\ \A k \in 1..Len(w.tcpip.mbox) :
       \A i \in ChainOf(w.pool, w.tcpip.mbox[k]) : w.pool[i].st = "tcpip"

\* the step is PPP_LINK_COMMAND_CONNECT or PPP_LINK_COMMAND_FREE
FreeingCommand == mt'.cmd # mt.cmd /\ mt'.cmd.name \in {"connect", "free"}

\* the step is a call of pppos_input or a link command
FramerStep == nbytes' # nbytes \/ mt'.cmd # mt.cmd

\* the step hands a chain to ppp_input or posts it to the tcpip thread
HandsOn ==
  /\ FramerStep
  /\ Len(upper') > Len(upper) \/ Len(tcpip'.mbox) > Len(tcpip.mbox)

\* C21: the framer owns exactly the buffers it can reach through in_head
\* and in_tail; a step that hands a frame on (ppp_input, or the post to the
\* tcpip thread) hands on the chain of in_head, whose buffers the framer
\* owned, and leaves in_head and in_tail null; no later call of pppos_input
\* and no command changes a buffer that was handed on; a buffer the framer
\* owns is handed on or freed, once, and none is left once a FLAG has ended
\* the frame or a command has freed the input packet.
C21_ExclusiveOwnership ==
  [][/\ OwnedIn(WorldAfter)
     /\ FramerStep =>
           /\ \A i \in PbufId :
                 pool[i].st \in {"upper", "tcpip"} => pool'[i] = pool[i]
           /\ \A i \in PbufId :
                 (pool[i].st = "free" /\ pool'[i].st # "free") =>
                    (pool'[i].st = "rx" /\ i \in {pcrx'.in_head, pcrx'.in_tail})
     /\ HandsOn =>
           /\ upper' \o tcpip'.mbox = Append(upper \o tcpip.mbox, pcrx.in_head)
           /\ pcrx'.in_head = NULL /\ pcrx'.in_tail = NULL
           /\ \A i \in ChainOf(pool', pcrx.in_head) : pool[i].st = "rx"
     /\ ((FlagStep /\ fault' = "none") \/ FreeingCommand) =>
           /\ pcrx'.in_head = NULL /\ pcrx'.in_tail = NULL
           /\ Held(pool') = 0]_vars

\* a frame was delivered, and later PPP_LINK_COMMAND_FREE freed the buffer
\* of a frame under assembly
C21_Witness ==
  /\ upper # <<>>
  /\ pool[upper[1]].st = "upper"
  /\ mt.pc = "idle" /\ mt.cmd.name = "free" /\ mt.cmd.had
  /\ Held(pool) = 0
  /\ pcrx.in_head = NULL /\ pcrx.in_tail = NULL

----------------------------------------------------------------------------
(* Properties of the PPP_INPROC_MULTITHREADED build (SpecQ) *)

\* the step is pppos_input on the FLAG that ends a frame with a good FCS
\* and stored bytes while the mailbox of the tcpip thread is full
PostFails ==
  /\ FlagStep
  /\ pcrx.in_state = PDDATA /\ pcrx.in_fcs = PPP_GOODFCS
  /\ pcrx.in_tail # NULL
  /\ tcpip.on /\ Len(tcpip.mbox) = TCPIP_MBOX_SIZE

\* the heads of the chains of pool pl that some message or the PPP engine holds
Dispatched(q, up) == {q[i] : i \in 1..Len(q)} \cup {up[i] : i \in 1..Len(up)}

\* C15: when the good frame cannot be posted to the tcpip thread, every one
\* of its buffers is freed, it is neither posted nor delivered, then or
\* later, link.drop goes up by one and no other counter changes, and the
\* framer is left as after a delivery: in_head and in_tail null, the FCS
\* at PPP_INITFCS, in_escaped clear, the state PDADDRESS.
C15_PostFailureDropsFrame ==
  [][/\ PostFails =>
          /\ fault' = "none"
          /\ \A i \in PbufId : pool[i].st = "rx" => pool'[i].st = "free"
          /\ \A i \in PbufId : pool[i].st # "rx" => pool'[i] = pool[i]
          /\ tcpip' = tcpip /\ upper' = upper
          /\ stats' = [stats EXCEPT !.drop = @ + 1]
          /\ pcrx' = [pcrx EXCEPT !.in_head = NULL, !.in_tail = NULL,
                                  !.in_fcs = PPP_INITFCS, !.in_escaped = 0,
                                  !.in_state = PDADDRESS]
     /\ \A h \in Dispatched(tcpip'.mbox, upper') : pool'[h].st \in {"tcpip", "upper"}]_vars

\* a frame was dropped at a full mailbox, the tcpip thread has then taken
\* its message, and the next frame has been posted
C15_Witness ==
  /\ tcpip.on
  /\ stats.drop = 1 /\ stats.chkerr = 0 /\ stats.lenerr = 0 /\ stats.memerr = 0
  /\ Len(upper) = 1
  /\ ChainBytes(pool, upper[1]) = <<\h00, \h21>>
  /\ Len(tcpip.mbox) = 1
  /\ ChainBytes(pool, tcpip.mbox[1]) = pppos_input_header \o <<\h00, \h21>>
  /\ ev = "queued"
  /\ fault = "none"

----------------------------------------------------------------------------
(* Properties of the link commands (SpecMT) *)

ConnectStep == mt.link = "down" /\ mt'.link = "up"

DisconnectStep == mt.link = "up" /\ mt'.link = "down"

\* the session state as ppp_clear leaves it, with 0x7d and 0x7e marked
ClearedRx == [RxInit(AccmZero) EXCEPT !.in_accm[15] = \h60]

\* C13: PPP_LINK_COMMAND_CONNECT, whatever the receive framer holds, makes
\* exactly one notification, ppp_start; when ppp_start is called the partial
\* frame has been freed, in_head and in_tail are null, the session state is
\* cleared and both ACCMs mark 0x7d and 0x7e; nothing changes after it.
C13_ConnectResetsBeforeStart ==
  [][ConnectStep =>
       /\ Len(mt'.cmd.notes) = 1
       /\ LET n == mt'.cmd.notes[1]
          IN  /\ n.what = "ppp_start"
              /\ n.held = 0
              /\ n.pcrx.in_head = NULL /\ n.pcrx.in_tail = NULL
              /\ n.pcrx = ClearedRx
              /\ n.ppp.last_xmit = Tick(0, 0)
              /\ \A c \in {PPP_ESCAPE, PPP_FLAG} :
                    ESCAPE_P(n.pcrx.in_accm, c) /\ ESCAPE_P(n.ppp.out_accm, c)
              /\ pcrx' = n.pcrx /\ ppp' = n.ppp /\ Held(pool') = n.held
       /\ fault' = fault /\ upper' = upper /\ stats' = stats]_vars

\* a CONNECT has run while a frame was being assembled, and has freed it
C13_Witness ==
  /\ mt.cmd.name = "connect" /\ mt.cmd.had
  /\ mt.link = "up"
  /\ Held(pool) = 0
  /\ fault = "none"

\* C14: PPP_LINK_COMMAND_DISCONNECT leaves in_state, in_fcs, in_escaped,
\* in_protocol, in_head, in_tail and every buffer as they are; all it does
\* is call ppp_link_end, once.
C14_DisconnectLeavesRxAlone ==
  [][DisconnectStep =>
       /\ pcrx' = pcrx /\ pool' = pool
       /\ stats' = stats /\ upper' = upper /\ fault' = fault /\ ppp' = ppp
       /\ mt'.cmd.notes = << [what |-> "ppp_link_end"] >>]_vars

\* a DISCONNECT has run while a frame was being assembled, and the frame is
\* still there
C14_Witness ==
  /\ mt.cmd.name = "disconnect" /\ mt.cmd.had
  /\ mt.link = "down"
  /\ pcrx.in_head # NULL /\ pcrx.in_state = PDDATA
  /\ Held(pool) >= 1

----------------------------------------------------------------------------
(* Properties of the transmit framer (SpecTX, SpecTXN) *)

\* the bytes of the chain built by the call in tx, and those between its
\* delimiting flags
TxFrame == Flatten(tx.chain)

TxInterior == SubSeq(TxFrame, IF tx.lead THEN 2 ELSE 1, Len(TxFrame) - 1)

Marked(accm, c) == ESCAPE_P(accm, c)

\* the byte stuffing of RFC 1662 and its inverse
RECURSIVE TxStuff(_, _)
TxStuff(accm, s) ==
  IF s = <<>> THEN <<>>
  ELSE (IF Marked(accm, Head(s)) THEN <<PPP_ESCAPE, BitXor(Head(s), PPP_TRANS)>> ELSE <<Head(s)>>)
       \o TxStuff(accm, Tail(s))

RECURSIVE TxUnstuff(_)
TxUnstuff(s) ==
  IF s = <<>> THEN <<>>
  ELSE IF Head(s) = PPP_ESCAPE /\ Len(s) >= 2
       THEN <<BitXor(s[2], PPP_TRANS)>> \o TxUnstuff(SubSeq(s, 3, Len(s)))
       ELSE <<Head(s)>> \o TxUnstuff(Tail(s))

\* the positions of s where an escape pair opens
RECURSIVE PairOpens(_, _)
PairOpens(s, i) ==
  IF i > Len(s) THEN {}
  ELSE IF s[i] = PPP_ESCAPE THEN {i} \cup PairOpens(s, i + 2)
  ELSE PairOpens(s, i + 1)

IsPrefix(s, t) == Len(s) <= Len(t) /\ s = SubSeq(t, 1, Len(s))

\* a frame was handed to pppos_xmit by the call in tx
TxSent == tx.op # "none" /\ tx.sent

\* frame F ends with a FLAG, and starts with one when the call led with it
Delimited(F) ==
  /\ F[Len(F)] = PPP_FLAG
  /\ tx.lead => F[1] = PPP_FLAG

NoFlagIn(I) == \A i \in 1..Len(I) : I[i] # PPP_FLAG

\* the interior I is the stuffing of D, and D is the logical bytes and two more
Stuffed(I, D) ==
  /\ IsPrefix(tx.logical, D)
  /\ Len(D) = Len(tx.logical) + 2
  /\ I = TxStuff(ppp.out_accm, D)

\* every 0x7d of I at a position of P is followed by a byte whose XOR with
\* 0x20 the ACCM marks
EscapesFollowedByMarked(I, P) ==
  \A i \in P : I[i] = PPP_ESCAPE =>
    /\ i < Len(I)
    /\ Marked(ppp.out_accm, BitXor(I[i + 1], PPP_TRANS))

C3_AsStated(F, I) ==
  /\ Delimited(F)
  /\ NoFlagIn(I)
  /\ Stuffed(I, TxUnstuff(I))
  /\ EscapesFollowedByMarked(I, 1..Len(I))

C3_Amended(F, I) ==
  /\ Delimited(F)
  /\ NoFlagIn(I)
  /\ Stuffed(I, TxUnstuff(I))
  /\ EscapesFollowedByMarked(I, PairOpens(I, 1))

\* C3 as stated: in every frame emitted under an ACCM that marks 0x7d and
\* 0x7e, no 0x7e lies between the delimiting flags, every marked logical
\* byte is emitted as the pair 0x7d, b XOR 0x20, and every interior 0x7d is
\* followed by a byte whose XOR with 0x20 is 0x7d, 0x7e or ACCM-marked.
C3_EveryEscapeIsFollowedByMarked ==
  (TxSent /\ Marked(ppp.out_accm, PPP_ESCAPE) /\ Marked(ppp.out_accm, PPP_FLAG)) =>
    C3_AsStated(TxFrame, TxInterior)

\* C3 amended: the same for an ACCM that does not mark 0x5e, with the last
\* part said of every 0x7d that opens an escape pair (one that is not itself
\* the second byte of a pair).
C3_EveryPairIsWellFormed ==
  (TxSent /\ Marked(ppp.out_accm, PPP_ESCAPE) /\ Marked(ppp.out_accm, PPP_FLAG)
          /\ ~Marked(ppp.out_accm, \h5e)) =>
    C3_Amended(TxFrame, TxInterior)

HasEscapedEscape(I) ==
  \E i \in 1..(Len(I) - 1) : I[i] = PPP_ESCAPE /\ I[i + 1] = PPP_ESCAPE

\* a frame whose logical bytes hold 0x5d, sent under an ACCM that marks it:
\* the wire holds the pair 0x7d 0x7d
C3_Witness ==
  /\ TxSent
  /\ ppp.out_accm = Accm5D
  /\ \E i \in 1..Len(tx.logical) : tx.logical[i] = \h5d
  /\ HasEscapedEscape(TxInterior)

\* D is the logical bytes followed by the complement of their FCS, low byte
\* first, and folds to PPP_GOODFCS
FcsAppended(D, n, fcs) ==
  /\ fcs \in 0..\hffff
  /\ Len(D) = n + 2
  /\ SubSeq(D, 1, n) = tx.logical
  /\ D[n + 1] = (\hffff - fcs) % 256
  /\ D[n + 2] = (\hffff - fcs) \div 256
  /\ FcsFold(PPP_INITFCS, D) = PPP_GOODFCS

\* C4: the FCS of an emitted frame is accumulated from 0xffff over the
\* logical bytes, its complement follows them low byte first, and the fold
\* over the logical bytes and the two FCS bytes is 0xf0b8, within 16 bits.
C4_TransmitFcs ==
  TxSent =>
    FcsAppended(TxUnstuff(TxInterior), Len(tx.logical), FcsFold(PPP_INITFCS, tx.logical))

\* a frame of the netif output with its full header, escaped on the wire
C4_Witness ==
  /\ TxSent
  /\ tx.op = "netif"
  /\ Len(tx.logical) = 5
  /\ Len(TxInterior) > 7
  /\ FcsFold(PPP_INITFCS, TxUnstuff(TxInterior)) = PPP_GOODFCS

\* frame F starts with a FLAG that is not part of its content
Leads(F) == F[1] = PPP_FLAG

\* C5: after a short serial write no further segment of the frame is
\* offered, last_xmit is 0 and link.err is incremented, and the next
\* transmission begins with a FLAG whatever sys_jiffies returns.
C5_ShortWriteForcesFlag ==
  /\ (tx.op # "none" /\ tx.short) =>
       /\ IsPrefix(tx.offered, tx.chain)
       /\ ppp.last_xmit = <<0, 0>>
       /\ stats.err = tx.stats0.err + 1
  /\ (TxSent /\ tx.after_short) => Leads(TxFrame)

\* t + d modulo 2^32
TickAfter(t, d) ==
  <<(t[1] + (t[2] + d) \div Half) % Half, (t[2] + d) % Half>>

\* now is fewer than PPP_MAXIDLEFLAG ticks after last, counting modulo 2^32
Within(now, last) == \E d \in 0..(PPP_MAXIDLEFLAG - 1) : TickAfter(last, d) = now

\* the leading FLAG is there exactly when the link has been idle
LeadsWhenIdle(F) == Leads(F) <=> ~Within(tx.now, tx.last0)

\* C6 as stated: a call that builds a frame emits a leading FLAG exactly
\* when (now - last_xmit) >= PPP_MAXIDLEFLAG in modular arithmetic, and then
\* sets last_xmit to now.
C6_LastXmitIsNow ==
  /\ TxSent => LeadsWhenIdle(TxFrame)
  /\ (tx.op # "none" /\ tx.reached) => ppp.last_xmit = tx.now

\* C6 amended: the leading FLAG is there exactly when (now - last_xmit) >=
\* PPP_MAXIDLEFLAG modulo 2^32; the call leaves last_xmit at now, unless a
\* serial write of the frame was short, when it leaves 0; and of two
\* transmissions, the first written completely after an idle period and the
\* second within PPP_MAXIDLEFLAG of it, the first leads with a FLAG and the
\* second does not.
C6_IdleFlagRule ==
  /\ TxSent => LeadsWhenIdle(TxFrame)
  /\ (tx.op # "none" /\ tx.reached) =>
       ppp.last_xmit = IF tx.short THEN <<0, 0>> ELSE tx.now
  /\ (TxSent /\ tx.prev.sent /\ ~tx.prev.short /\ tx.prev.lead /\ Within(tx.now, tx.prev.now)) =>
       ~Leads(TxFrame)

\* the tick counter wraps between two transmissions: the first led with a
\* FLAG, the second does not
C6_Witness ==
  /\ TxSent
  /\ tx.prev.sent /\ ~tx.prev.short /\ tx.prev.lead
  /\ tx.prev.now = <<Half - 1, Half - 1>>
  /\ tx.now = <<0, 50>>
  /\ ~Leads(TxFrame)
  /\ ppp.last_xmit = tx.now

\* the bytes of the frame the call in tx was building
TxWanted ==
  (IF ~Within(tx.now, tx.last0) THEN <<PPP_FLAG>> ELSE <<>>)
  \o TxStuff(ppp.out_accm,
             tx.logical \o << (\hffff - FcsFold(PPP_INITFCS, tx.logical)) % 256,
                              (\hffff - FcsFold(PPP_INITFCS, tx.logical)) \div 256 >>)
  \o <<PPP_FLAG>>

StrictPrefix(s, t) == IsPrefix(s, t) /\ Len(s) < Len(t)

\* C10: when the first pbuf_alloc or one inside pppos_append fails, no later
\* append adds to the chain or allocates, the partial chain is freed exactly
\* once, memerr is incremented, nothing is offered to the serial device and
\* the entry point returns PPPERR_ALLOC or ERR_MEM.
C10_TransmitAllocFailure ==
  (tx.op # "none" /\ tx.failed) =>
    /\ ~tx.complete
    /\ tx.nalloc = Len(tx.chain) + 1
    /\ StrictPrefix(TxFrame, TxWanted)
    /\ tx.freed = (IF tx.chain # <<>> THEN 1 ELSE 0)
    /\ stats.memerr > tx.stats0.memerr
    /\ tx.offered = <<>>
    /\ stats.xmit = tx.stats0.xmit
    /\ tx.ret = (IF tx.op = "write" THEN "PPPERR_ALLOC" ELSE "ERR_MEM")

\* an allocation inside pppos_append fails after two buffers were filled
C10_Witness ==
  /\ tx.op = "netif"
  /\ tx.failed
  /\ Len(tx.chain) = 2
  /\ tx.freed = 1
  /\ stats.memerr = tx.stats0.memerr + 2
  /\ tx.ret = "ERR_MEM"

LastUnit(sg) ==
  IF Len(sg) >= 2 /\ (Len(sg) - 1) \in PairOpens(sg, 1) THEN 2 ELSE 1

\* C23: in every chain built by pppos_append, no buffer holds more than
\* PBUF_POOL_BUFSIZE bytes; a buffer is followed by a new one only when it
\* has fewer than 2 bytes free, and nothing is written to a buffer that has
\* fewer than 2 bytes free; the two bytes of an escape pair lie in the same
\* buffer.
C23_AppendKeepsPairsTogether ==
  (tx.op # "none" /\ tx.reached) =>
    \A i \in 1..Len(tx.chain) :
      LET sg == tx.chain[i]
      IN  /\ Len(sg) <= PBUF_POOL_BUFSIZE
          /\ i < Len(tx.chain) => PBUF_POOL_BUFSIZE - Len(sg) < 2
          /\ sg # <<>> => PBUF_POOL_BUFSIZE - (Len(sg) - LastUnit(sg)) >= 2
          /\ \A k \in PairOpens(sg, 1) : k < Len(sg)

\* a buffer with one byte free was left for a new one by an escape pair,
\* and another buffer was filled to its capacity by an escape pair
C23_Witness ==
  /\ TxSent
  /\ \E i \in 1..(Len(tx.chain) - 1) :
        /\ Len(tx.chain[i]) = PBUF_POOL_BUFSIZE - 1
        /\ tx.chain[i + 1][1] = PPP_ESCAPE
  /\ \E i \in 1..Len(tx.chain) :
        /\ Len(tx.chain[i]) = PBUF_POOL_BUFSIZE
        /\ tx.chain[i][PBUF_POOL_BUFSIZE - 1] = PPP_ESCAPE

\* C25: a call of a transmit entry point that returns PPPERR_ALLOC or
\* ERR_MEM leaves last_xmit as it was at entry.
C25_AllocFailureKeepsLastXmit ==
  (tx.op # "none" /\ tx.ret \in {"PPPERR_ALLOC", "ERR_MEM"}) =>
    ppp.last_xmit = tx.last0

----------------------------------------------------------------------------
(* Properties of the round trip (SpecRT) *)

\* the whole frame has been handed to pppos_input
RtDone == rt.pc = "wire" /\ rt.wire = <<>>

\* exactly one packet was delivered: the sent protocol, then the payload
RtDelivered ==
  /\ fault = "none"
  /\ Len(upper) = 1
  /\ ChainBytes(pool, upper[1]) =
       << rt.protocol \div 256, rt.protocol % 256 >> \o rt.payload

RtValidProtocol ==
  /\ (rt.protocol \div 256) % 2 = 0
  /\ (rt.protocol % 256) % 2 = 1

\* no character is marked together with the character its escape puts on the wire
RtAccmPlain(accm) ==
  \A c \in Byte : ~(Marked(accm, c) /\ Marked(accm, BitXor(c, PPP_TRANS)))

\* C2 as stated: for every payload, valid protocol, ACFC and PFC setting and
\* common ACCM marking 0x7d and 0x7e, the frame of the netif output fed to
\* pppos_input delivers exactly one packet, with the sent protocol and payload.
C2_RoundTrip ==
  (RtDone /\ RtValidProtocol /\ pcrx.in_accm = ppp.out_accm
          /\ Marked(ppp.out_accm, PPP_ESCAPE) /\ Marked(ppp.out_accm, PPP_FLAG))
    => RtDelivered

\* C2 amended: the same when, besides, the ACCM marks no character together
\* with its XOR with 0x20, the protocol is not 0x0003 or 0x00ff with ACFC and
\* PFC both on, and the frame has a leading FLAG or no ACFC, or the receive
\* framer has already seen a FLAG.
C2_RoundTripWhenUnambiguous ==
  (RtDone /\ RtValidProtocol /\ pcrx.in_accm = ppp.out_accm
          /\ Marked(ppp.out_accm, PPP_ESCAPE) /\ Marked(ppp.out_accm, PPP_FLAG)
          /\ RtAccmPlain(ppp.out_accm)
          /\ ~(ppp.accomp /\ ppp.pcomp /\ rt.protocol \in {\h0003, \h00ff})
          /\ (rt.led \/ ~ppp.accomp \/ ~rt.idle))
    => RtDelivered

\* a compressed header, a payload that needs escaping and fills a second
\* receive buffer, into a fresh receive framer
C2_Witness ==
  /\ RtDone
  /\ RtDelivered
  /\ ppp.accomp /\ ppp.pcomp
  /\ ppp.out_accm = AccmCtrl
  /\ rt.protocol = \h0021
  /\ rt.payload = <<PPP_FLAG, \h5d>>
  /\ rt.idle /\ rt.led

----------------------------------------------------------------------------
(* Properties of the receive framer under link commands (SpecMT) *)

\* C8: pppos_input is thread-safe: with link commands issued on another
\* thread, the receive path never reads or writes a buffer a command has
\* freed, and no receive buffer is freed twice.
C8_InputIsThreadSafe == fault \notin {"use_after_free", "double_free"}

====
